------------------------------ MODULE Spec2Model ------------------------------
(***************************************************************************)
(* The bias-scoring engine of backend/improved_bias_analyzer.py            *)
(* (ImprovedBiasAnalyzer) as a state machine: the analyzer instance with   *)
(* its static tables, and analyze(text) calls that run through the length  *)
(* check, the term counter, the framing detector, the moral profiler and   *)
(* the scorer.  Texts are strings; a character is a string of length 1.    *)
(* Python floats are modelled as exact fractions [num, den] with den > 0;  *)
(* comparisons are made by cross-multiplication.                           *)
(***************************************************************************)
EXTENDS Integers, Sequences, FiniteSets, TLC

VARIABLES
    lexicons,           \* self.lexicons
    framing_patterns,   \* self.framing_patterns
    moral_foundations,  \* self.moral_foundations
    tfidf,              \* self.tfidf
    reference_articles, \* self.reference_articles
    NLTK_AVAILABLE,     \* module global set by the guarded import
    nltk_data,          \* whether the punkt / stopwords resources can be looked up
    pc,                 \* per caller: where its analyze call stands
    text,               \* per caller: the argument of analyze
    text_type,          \* per caller: the type of the argument, "str" or "bytes"
    lexicon_results,    \* per caller: local of analyze
    framing_results,    \* per caller: local of analyze
    moral_results,      \* per caller: local of analyze
    result,             \* per caller: the value analyze returns
    seen,               \* the texts answered so far, each with its first result (history)
    request,            \* per caller: the POST /api/analyze it serves, if it is a handler
    response            \* per caller: the HTTP response of the handler

vars == <<lexicons, framing_patterns, moral_foundations, tfidf, reference_articles,
          NLTK_AVAILABLE, nltk_data,
          pc, text, text_type, lexicon_results, framing_results, moral_results, result, seen,
          request, response>>

tables == <<lexicons, framing_patterns, moral_foundations, tfidf, reference_articles,
            NLTK_AVAILABLE, nltk_data>>

http == <<request, response>>

-----------------------------------------------------------------------------
(* Characters and strings *)

LowerCaseLetters ==
    {"a", "b", "c", "d", "e", "f", "g", "h", "i", "j", "k", "l", "m",
     "n", "o", "p", "q", "r", "s", "t", "u", "v", "w", "x", "y", "z"}

UpperCaseLetters ==
    {"A", "B", "C", "D", "E", "F", "G", "H", "I", "J", "K", "L", "M",
     "N", "O", "P", "Q", "R", "S", "T", "U", "V", "W", "X", "Y", "Z"}

Digits == {"0", "1", "2", "3", "4", "5", "6", "7", "8", "9"}

\* the characters the regex class \w (and hence \b) treats as word characters
WordChars == LowerCaseLetters \cup UpperCaseLetters \cup Digits \cup {"_"}

\* the characters str.strip() and str.split() treat as whitespace
Whitespace == {" ", "\t", "\n"}

ToLower ==
    "A" :> "a" @@ "B" :> "b" @@ "C" :> "c" @@ "D" :> "d" @@ "E" :> "e" @@
    "F" :> "f" @@ "G" :> "g" @@ "H" :> "h" @@ "I" :> "i" @@ "J" :> "j" @@
    "K" :> "k" @@ "L" :> "l" @@ "M" :> "m" @@ "N" :> "n" @@ "O" :> "o" @@
    "P" :> "p" @@ "Q" :> "q" @@ "R" :> "r" @@ "S" :> "s" @@ "T" :> "t" @@
    "U" :> "u" @@ "V" :> "v" @@ "W" :> "w" @@ "X" :> "x" @@ "Y" :> "y" @@
    "Z" :> "z"

CharAt(s, i) == SubSeq(s, i, i)

Min(S) == CHOOSE x \in S : \A y \in S : x <= y
Max(S) == CHOOSE x \in S : \A y \in S : x >= y

\* s with every character in DOMAIN f replaced by its image (halving keeps the
\* evaluation shallow)
RECURSIVE MapChars(_, _)
MapChars(s, f) ==
    IF Len(s) = 0 THEN ""
    ELSE IF Len(s) = 1 THEN (IF s \in DOMAIN f THEN f[s] ELSE s)
    ELSE LET h == Len(s) \div 2
         IN MapChars(SubSeq(s, 1, h), f) \o MapChars(SubSeq(s, h + 1, Len(s)), f)

\* str.lower()
Lower(s) == MapChars(s, ToLower)

\* str.replace(old, new) for single characters
Replace(s, old, new) == MapChars(s, old :> new)

\* str.strip()
Strip(s) ==
    LET keep == {i \in 1..Len(s) : CharAt(s, i) \notin Whitespace}
    IN IF keep = {} THEN "" ELSE SubSeq(s, Min(keep), Max(keep))

\* ", ".join(parts) and the like
RECURSIVE Join(_, _)
Join(sep, parts) ==
    IF Len(parts) = 0 THEN ""
    ELSE IF Len(parts) = 1 THEN parts[1]
    ELSE parts[1] \o sep \o Join(sep, Tail(parts))

\* str.split(): the maximal runs of non-whitespace, keyed by where they start
Split(s) ==
    LET n == Len(s)
        ink == [i \in 0..(n + 1) |-> i >= 1 /\ i <= n /\ CharAt(s, i) \notin Whitespace]
        starts == {i \in 1..n : ink[i] /\ ~ink[i - 1]}
        ends == {i \in 1..n : ink[i] /\ ~ink[i + 1]}
    IN [i \in starts |-> SubSeq(s, i, Min({j \in ends : j >= i}))]

-----------------------------------------------------------------------------
(* Fractions *)

\* sum(f[x] for x in S) over integers
RECURSIVE SumInts(_, _)
SumInts(f, S) ==
    IF S = {} THEN 0
    ELSE LET x == CHOOSE y \in S : TRUE IN f[x] + SumInts(f, S \ {x})

Frac(n, d) == [num |-> n, den |-> d]
FracLt(a, b) == a.num * b.den < b.num * a.den
FracLe(a, b) == a.num * b.den <= b.num * a.den
FracEq(a, b) == a.num * b.den = b.num * a.den

RECURSIVE GCD(_, _)
GCD(a, b) == IF b = 0 THEN a ELSE GCD(b, a % b)

\* the same value in lowest terms
Reduced(a) ==
    LET g == GCD(IF a.num < 0 THEN -a.num ELSE a.num, a.den)
    IN Frac(a.num \div g, a.den \div g)

FracAdd(a, b) == Reduced(Frac(a.num * b.den + b.num * a.den, a.den * b.den))
\* a / b for b > 0
FracDiv(a, b) == Reduced(Frac(a.num * b.den, a.den * b.num))
\* Python's min(a, b) and max(a, b): the first argument wins a tie
FracMin(a, b) == IF FracLt(b, a) THEN b ELSE a
FracMax(a, b) == IF FracLt(a, b) THEN b ELSE a

-----------------------------------------------------------------------------
(* The static tables *)

\* analyze: the least stripped length of a text that is analysed
MinTextLength == 50

\* the axis keys of the lexicon table
CategoryKeys ==
    {"economy_left", "economy_right", "social_left", "social_right", "healthcare_left", "healthcare_right",
     "environment_left", "environment_right", "immigration_left", "immigration_right", "foreign_left", "foreign_right",
     "education_left", "education_right", "criminal_justice_left", "criminal_justice_right", "technology_left", "technology_right"}

\* ImprovedBiasAnalyzer._load_lexicons: the table it returns, term for term
_load_lexicons ==
    [category \in CategoryKeys |->
        CASE category = "economy_left" -> <<
                "regulation", "inequality", "living wage", "worker protection",
                "economic justice", "wealth tax", "social safety net", "public investment",
                "minimum wage", "labor unions", "worker rights", "corporate greed",
                "wealth redistribution", "progressive tax", "public services",
                "economic fairness", "worker solidarity", "corporate accountability",
                "economic democracy", "public ownership", "social welfare",
                "economic inequality", "wealth gap", "corporate welfare",
                "economic reform", "worker empowerment", "fair wages", "economic justice",
                "public infrastructure", "social programs"
             >>
          [] category = "economy_right" -> <<
                "deregulation", "free market", "tax cut", "fiscal responsibility",
                "job creator", "economic freedom", "private sector", "trickle-down",
                "small government", "fiscal conservatism", "market forces",
                "economic growth", "business friendly", "entrepreneurship",
                "private enterprise", "free enterprise", "economic liberty",
                "market competition", "fiscal restraint", "business regulation",
                "economic opportunity", "job growth", "market efficiency",
                "economic prosperity", "private investment", "business climate",
                "economic stability", "market solutions", "fiscal discipline"
             >>
          [] category = "social_left" -> <<
                "reproductive rights", "LGBTQ+ rights", "racial justice", "diversity",
                "inclusion", "marginalized communities", "systemic racism",
                "police reform", "social justice", "civil rights", "gender equality",
                "social equity", "racial equality", "social progress", "human rights",
                "social change", "community empowerment", "social inclusion",
                "racial equity", "gender equity", "social reform", "civil liberties",
                "social equality", "community justice", "social empowerment",
                "racial progress", "gender justice", "social transformation",
                "civil rights movement"
             >>
          [] category = "social_right" -> <<
                "traditional values", "family values", "religious freedom",
                "law and order", "western civilization", "patriotism", "moral decay",
                "unborn", "cultural heritage", "family structure", "moral values",
                "social stability", "traditional marriage", "cultural preservation",
                "national identity", "moral standards", "social order", "cultural values",
                "family tradition", "moral principles", "social cohesion",
                "cultural identity", "national pride", "moral foundation",
                "social harmony", "cultural tradition", "family values", "moral compass",
                "social fabric", "cultural heritage"
             >>
          [] category = "healthcare_left" -> <<
                "universal healthcare", "single-payer", "affordable care act",
                "medicare for all", "public option", "healthcare equity",
                "prescription drug prices", "mental health care", "healthcare access",
                "healthcare reform", "public health", "healthcare justice",
                "healthcare rights", "healthcare equality", "healthcare affordability",
                "healthcare coverage", "healthcare system", "healthcare policy",
                "healthcare support", "healthcare assistance", "healthcare benefits",
                "healthcare protection", "healthcare security", "healthcare provision",
                "healthcare services", "healthcare resources", "healthcare programs",
                "healthcare funding", "healthcare investment", "healthcare infrastructure"
             >>
          [] category = "healthcare_right" -> <<
                "market-based healthcare", "health savings accounts", "private insurance",
                "personal responsibility", "choice in healthcare", "individual mandate",
                "rationing", "healthcare choice", "private healthcare",
                "healthcare freedom", "healthcare competition", "healthcare innovation",
                "healthcare efficiency", "healthcare quality", "healthcare options",
                "healthcare market", "healthcare consumer", "healthcare provider",
                "healthcare cost", "healthcare reform", "healthcare system",
                "healthcare policy", "healthcare access", "healthcare coverage",
                "healthcare benefits", "healthcare services", "healthcare resources",
                "healthcare programs", "healthcare funding", "healthcare investment",
                "healthcare infrastructure"
             >>
          [] category = "environment_left" -> <<
                "climate crisis", "green new deal", "renewable energy",
                "environmental justice", "carbon tax", "sustainability",
                "pollution control", "conservation", "climate action",
                "environmental protection", "clean energy", "climate change",
                "environmental policy", "green technology", "climate policy",
                "environmental regulation", "renewable resources", "climate solutions",
                "environmental impact", "green initiatives", "climate adaptation",
                "environmental awareness", "sustainable development", "climate mitigation",
                "environmental conservation", "green economy", "climate resilience",
                "environmental stewardship", "sustainable future"
             >>
          [] category = "environment_right" -> <<
                "environmental overregulation", "clean coal", "energy independence",
                "job-killing regulations", "climate alarmism", "property rights",
                "nuclear power", "energy security", "environmental balance",
                "economic growth", "energy development", "environmental management",
                "resource utilization", "energy production", "environmental stewardship",
                "economic prosperity", "energy innovation", "environmental science",
                "resource conservation", "energy efficiency", "environmental policy",
                "economic opportunity", "energy technology", "environmental protection",
                "resource management", "energy infrastructure", "environmental regulation",
                "economic development"
             >>
          [] category = "immigration_left" -> <<
                "pathway to citizenship", "dreamers", "asylum seekers",
                "family reunification", "undocumented immigrants", "immigration reform",
                "sanctuary cities", "immigration rights", "refugee protection",
                "immigration justice", "immigration policy", "refugee rights",
                "immigration support", "immigration assistance", "refugee assistance",
                "immigration services", "immigration protection", "refugee support",
                "immigration resources", "immigration programs", "refugee programs",
                "immigration benefits", "immigration rights", "refugee rights",
                "immigration support", "immigration assistance", "refugee assistance",
                "immigration services"
             >>
          [] category = "immigration_right" -> <<
                "border security", "illegal immigration", "merit-based immigration",
                "chain migration", "illegal aliens", "amnesty", "vetting", "deportation",
                "immigration control", "border protection", "immigration enforcement",
                "immigration policy", "border security", "immigration regulation",
                "immigration law", "border control", "immigration security",
                "immigration system", "border enforcement", "immigration rules",
                "immigration standards", "border management", "immigration requirements",
                "immigration process", "border patrol", "immigration screening",
                "immigration verification", "border control", "immigration checks"
             >>
          [] category = "foreign_left" -> <<
                "diplomacy", "international cooperation", "human rights", "foreign aid",
                "peacekeeping", "multilateral", "united nations", "soft power",
                "international relations", "global cooperation", "peace diplomacy",
                "international law", "global governance", "peace building",
                "international aid", "global partnership", "peace initiatives",
                "international support", "global development", "peace process",
                "international engagement", "global security", "peace negotiations",
                "international dialogue", "global stability", "peace efforts",
                "international collaboration", "global peace", "peace resolution"
             >>
          [] category = "foreign_right" -> <<
                "strong military", "america first", "national security",
                "defense spending", "sovereignty", "strength", "terrorism",
                "interventionism", "isolationism", "military strength", "national defense",
                "security policy", "military power", "national interest",
                "security measures", "military capability", "national sovereignty",
                "security strategy", "military readiness", "national protection",
                "security forces", "military presence", "national security",
                "security operations", "military defense", "national strength",
                "security systems", "military force", "national power", "security framework"
             >>
          [] category = "education_left" -> <<
                "public education", "education equity", "student rights",
                "education funding", "public schools", "education access",
                "student support", "education resources", "education reform",
                "student success", "education programs", "education policy",
                "student achievement", "education services", "education support",
                "student development", "education opportunities", "education system",
                "student learning", "education quality", "education rights",
                "student welfare", "education benefits", "education assistance",
                "student assistance", "education programs", "education investment",
                "student support", "education development"
             >>
          [] category = "education_right" -> <<
                "school choice", "education freedom", "parental rights",
                "education standards", "private education", "education quality",
                "parental control", "education excellence", "education reform",
                "student achievement", "parental involvement", "education policy",
                "student success", "parental choice", "education system",
                "student learning", "parental authority", "education standards",
                "student development", "parental responsibility", "education quality",
                "student performance", "parental guidance", "education accountability",
                "student progress", "parental influence", "education innovation",
                "student growth", "parental engagement"
             >>
          [] category = "criminal_justice_left" -> <<
                "criminal justice reform", "police accountability", "prison reform",
                "restorative justice", "criminal justice system", "police oversight",
                "prison rehabilitation", "justice reform", "police transparency",
                "prison alternatives", "criminal justice policy", "police training",
                "prison conditions", "justice system", "police reform",
                "prison population", "criminal justice change", "police practices",
                "prison programs", "justice initiatives", "police community",
                "prison services", "criminal justice progress", "police relations",
                "prison resources", "justice programs", "police accountability",
                "prison support", "criminal justice rights", "police oversight"
             >>
          [] category = "criminal_justice_right" -> <<
                "law and order", "tough on crime", "police support", "criminal justice",
                "public safety", "crime prevention", "police protection", "justice system",
                "crime control", "law enforcement", "police authority", "criminal law",
                "public security", "crime reduction", "police power", "legal system",
                "crime deterrence", "law compliance", "police force", "criminal code",
                "public order", "crime fighting", "police presence", "legal framework",
                "crime prevention", "law maintenance", "police service",
                "criminal justice", "public protection", "crime control", "police action",
                "legal authority"
             >>
          [] category = "technology_left" -> <<
                "digital privacy", "net neutrality", "tech regulation", "data protection",
                "digital rights", "internet freedom", "tech accountability",
                "privacy rights", "digital access", "tech innovation", "data security",
                "privacy protection", "digital inclusion", "tech development",
                "data privacy", "privacy laws", "digital equity", "tech progress",
                "data rights", "privacy standards", "digital literacy", "tech advancement",
                "data control", "privacy framework", "digital rights", "tech growth",
                "data protection", "privacy measures", "digital access", "tech evolution",
                "data security", "privacy safeguards"
             >>
          [] category = "technology_right" -> <<
                "tech innovation", "digital freedom", "market competition", "tech growth",
                "digital enterprise", "tech development", "market forces",
                "tech advancement", "digital progress", "tech industry",
                "market opportunity", "tech evolution", "digital future",
                "tech leadership", "market innovation", "tech progress", "digital economy",
                "tech sector", "market development", "tech expansion",
                "digital transformation", "tech capability", "market potential",
                "tech potential", "digital opportunity", "tech capacity", "market growth",
                "tech growth", "digital innovation", "tech advancement",
                "market expansion", "tech development"
             >>
    ]

\* ImprovedBiasAnalyzer.__init__: self.framing_patterns; each regular expression is
\* written as the literal strings its alternation group expands to
FramingPatterns ==
    [left_frames |-> <<
        <<"economic inequality">>,
        <<"systemic racism", "systemic discrimination">>,
        <<"human rights", "civil rights">>,
        <<"undocumented immigrants", "unauthorized immigrants">>,
        <<"climate crisis", "climate emergency">>,
        <<"worker rights", "labor rights">>,
        <<"affordable healthcare", "universal healthcare">>,
        <<"corporate greed">>
     >>,
     right_frames |-> <<
        <<"free market">>,
        <<"personal responsibility">>,
        <<"illegal aliens", "undocumented aliens">>,
        <<"family values">>,
        <<"job creators">>,
        <<"government overreach">>,
        <<"religious freedom", "religious liberty">>,
        <<"law and order">>
     >>]

\* the order in which self.moral_foundations lists the foundations
Foundations == <<"care", "fairness", "loyalty", "authority", "sanctity", "liberty">>

\* ImprovedBiasAnalyzer.__init__: self.moral_foundations
MoralFoundations ==
    [care      |-> {"harm", "care", "protect", "compassion", "empathy"},
     fairness  |-> {"fair", "equal", "justice", "rights", "equity"},
     loyalty   |-> {"loyal", "solidarity", "patriot", "betray", "treason"},
     authority |-> {"authority", "tradition", "respect", "obey", "order"},
     sanctity  |-> {"purity", "sacred", "disgust", "sin", "degradation"},
     liberty   |-> {"freedom", "liberty", "oppress", "tyranny", "restrict"}]

\* MinimalStopwords.words(): the fallback stopword list
MinimalStopwords ==
    {"a", "an", "the", "and", "or", "but", "if", "then", "else", "when",
     "at", "from", "by", "for", "with", "about", "against", "between",
     "into", "through", "during", "before", "after", "above", "below",
     "to", "of", "in", "on", "is", "are", "was", "were", "be", "been",
     "being", "have", "has", "had", "having", "do", "does", "did",
     "doing", "this", "that", "these", "those", "would", "should", "could",
     "i", "you", "he", "she", "it", "we", "they", "what", "which", "who"}

\* stopwords.words('english') of the NLTK corpus: the function words of English
\* (the pronouns, auxiliaries, prepositions and conjunctions the corpus lists)
EnglishStopwords ==
    {"i", "me", "my", "myself", "we", "our", "ours", "ourselves", "you", "your",
     "yours", "yourself", "yourselves", "he", "him", "his", "himself", "she", "her",
     "hers", "herself", "it", "its", "itself", "they", "them", "their", "theirs",
     "themselves", "what", "which", "who", "whom", "this", "that", "these", "those",
     "am", "is", "are", "was", "were", "be", "been", "being", "have", "has", "had",
     "having", "do", "does", "did", "doing", "a", "an", "the", "and", "but", "if",
     "or", "because", "as", "until", "while", "of", "at", "by", "for", "with",
     "about", "against", "between", "into", "through", "during", "before", "after",
     "above", "below", "to", "from", "up", "down", "in", "out", "on", "off", "over",
     "under", "again", "further", "then", "once", "here", "there", "when", "where",
     "why", "how", "all", "any", "both", "each", "few", "more", "most", "other",
     "some", "such", "no", "nor", "not", "only", "own", "same", "so", "than", "too",
     "very", "s", "t", "can", "will", "just", "don", "should", "now"}

\* analyze: the local table `categories`, in its order:
\* <<category, left axis key, right axis key>>
Categories ==
    <<<<"economic", "economy_left", "economy_right">>,
      <<"social", "social_left", "social_right">>,
      <<"environmental", "environment_left", "environment_right">>,
      <<"healthcare", "healthcare_left", "healthcare_right">>,
      <<"immigration", "immigration_left", "immigration_right">>,
      <<"foreign", "foreign_left", "foreign_right">>,
      <<"education", "education_left", "education_right">>,
      <<"criminal_justice", "criminal_justice_left", "criminal_justice_right">>,
      <<"technology", "technology_left", "technology_right">>>>

-----------------------------------------------------------------------------
(* Regular-expression search, as far as the analyzer uses it.               *)
(* A pattern is [alts, bounded]: the literal strings it can match, in the   *)
(* order the alternation tries them, and whether it is wrapped in \b ... \b *)

\* a text prepared for searching: which positions hold word characters, and where
\* each of its characters occurs (all positions, and those just after a \b)
Scan(s) ==
    LET n == Len(s)
        chars == [i \in 1..n |-> CharAt(s, i)]
        word == [i \in 0..(n + 1) |-> i >= 1 /\ i <= n /\ chars[i] \in WordChars]
        bounds == {i \in 1..n : word[i - 1] # word[i]}
    IN [s |-> s, n |-> n, word |-> word,
        at |-> [ch \in {chars[i] : i \in 1..n} |-> {i \in 1..n : chars[i] = ch}],
        boundAt |-> [ch \in {chars[i] : i \in bounds} |-> {i \in bounds : chars[i] = ch}]]

\* \b at position i: exactly one of the characters before and at i is a word character
Boundary(sc, i) == sc.word[i - 1] # sc.word[i]

AltMatchesAt(sc, alt, bounded, i) ==
    LET len == Len(alt)
    IN /\ i + len - 1 <= sc.n
       /\ SubSeq(sc.s, i, i + len - 1) = alt
       /\ bounded => Boundary(sc, i) /\ Boundary(sc, i + len)

\* the length of the match of pat starting at i, 0 when there is none
MatchLen(sc, pat, i) ==
    LET ok == {k \in 1..Len(pat.alts) : AltMatchesAt(sc, pat.alts[k], pat.bounded, i)}
    IN IF ok = {} THEN 0 ELSE Len(pat.alts[Min(ok)])

\* the positions at which pat matches
MatchStarts(sc, pat) ==
    LET index == IF pat.bounded THEN sc.boundAt ELSE sc.at
        firsts == {CharAt(pat.alts[k], 1) : k \in 1..Len(pat.alts)}
        cand == UNION {index[ch] : ch \in firsts \cap DOMAIN index}
    IN {i \in cand : MatchLen(sc, pat, i) > 0}

\* leftmost matches, each search resuming where the previous match ended
RECURSIVE CountFrom(_, _, _, _)
CountFrom(sc, pat, starts, from) ==
    LET rest == {i \in starts : i >= from}
    IN IF rest = {} THEN 0
       ELSE LET i == Min(rest)
            IN 1 + CountFrom(sc, pat, starts, i + MatchLen(sc, pat, i))

\* len(re.findall(pattern, text))
FindAllCount(pat, sc) == CountFrom(sc, pat, MatchStarts(sc, pat), 1)

\* r'\b' + re.escape(term) + r'\b'
TermPattern(term) == [alts |-> <<term>>, bounded |-> TRUE]

\* a framing pattern, given by the literal strings its alternation stands for
FramePattern(alts) == [alts |-> alts, bounded |-> FALSE]

-----------------------------------------------------------------------------
(* ImprovedBiasAnalyzer: the three analyses *)

RECURSIVE CountTerms(_, _, _)
CountTerms(sc, terms, k) ==
    IF k > Len(terms) THEN 0
    ELSE FindAllCount(TermPattern(terms[k]), sc) + CountTerms(sc, terms, k + 1)

\* the counter comparing the terms with the tokens of the text, as the profiler does,
\* so that no phrase of several words is found: a fault that C14_FreeMarket detects
_count_lexicon_terms_by_token(text_, lexicons_) ==
    LET tokens == Split(Lower(text_))
    IN [category \in DOMAIN lexicons_ |->
            Cardinality({pair \in (DOMAIN tokens) \X (DOMAIN lexicons_[category]) :
                            tokens[pair[1]] = lexicons_[category][pair[2]]})]

\* every distinct term of a list counted once, as if over set(terms): a fault that
\* C24_PerEntry detects
_count_lexicon_terms_distinct(text_, lexicons_) ==
    LET sc == Scan(Lower(text_))
    IN [category \in DOMAIN lexicons_ |->
            LET terms == lexicons_[category]
                first == {k \in DOMAIN terms : \A j \in 1..(k - 1) : terms[j] # terms[k]}
            IN SumInts([k \in first |-> FindAllCount(TermPattern(terms[k]), sc)], first)]

\* _count_lexicon_terms(text, lexicons): the text is lowered, the terms are not
_count_lexicon_terms(text_, lexicons_) ==
    LET sc == Scan(Lower(text_))
    IN [category \in DOMAIN lexicons_ |-> CountTerms(sc, lexicons_[category], 1)]

RECURSIVE CountFrames(_, _, _)
CountFrames(sc, patterns, k) ==
    IF k > Len(patterns) THEN 0
    ELSE FindAllCount(FramePattern(patterns[k]), sc) + CountFrames(sc, patterns, k + 1)

\* _analyze_framing(text), reading self.framing_patterns
_analyze_framing(text_, framing_patterns_) ==
    LET sc == Scan(Lower(text_))
    IN [frame_type \in DOMAIN framing_patterns_ |->
            CountFrames(sc, framing_patterns_[frame_type], 1)]

\* nltk.word_tokenize on texts of words, blanks and commas: the words str.split()
\* gives, with every comma a token of its own; keyed by where the token starts
WordTokenize(s) ==
    LET n == Len(s)
        ink == [i \in 0..(n + 1) |->
                    i >= 1 /\ i <= n /\ CharAt(s, i) \notin Whitespace \cup {","}]
        starts == {i \in 1..n : ink[i] /\ ~ink[i - 1]}
        ends == {i \in 1..n : ink[i] /\ ~ink[i + 1]}
        commas == {i \in 1..n : CharAt(s, i) = ","}
    IN [i \in starts \cup commas |->
            IF i \in commas THEN "," ELSE SubSeq(s, i, Min({j \in ends : j >= i}))]

\* an exception leaving a function instead of a value
Raised == [raised |-> TRUE]

\* the all-zero profile of the except branch
ZeroProfile(moral_foundations_) == [foundation \in DOMAIN moral_foundations_ |-> Frac(0, 1)]

\* the try block of _analyze_moral_foundations once tokens and stopwords are at hand
MoralCounts(tokens, stopwords_set, moral_foundations_) ==
    LET kept == {i \in DOMAIN tokens : tokens[i] \notin stopwords_set}
        count == [foundation \in DOMAIN moral_foundations_ |->
                    Cardinality({i \in kept : tokens[i] \in moral_foundations_[foundation]})]
        total == SumInts(count, DOMAIN moral_foundations_)
    IN [foundation \in DOMAIN moral_foundations_ |->
            IF total > 0 THEN Frac(count[foundation], total) ELSE Frac(0, 1)]

\* the profiler without its except clause, the failed lookup leaving it as an
\* exception: a fault that C10_ProfilerFailure detects
_analyze_moral_foundations_uncaught(text_, moral_foundations_, available, data) ==
    LET lowered == Lower(text_)
    IN IF available
       THEN IF data
            THEN MoralCounts(WordTokenize(lowered), EnglishStopwords, moral_foundations_)
            ELSE Raised
       ELSE MoralCounts(Split(lowered), MinimalStopwords, moral_foundations_)

\* _analyze_moral_foundations(text), reading self.moral_foundations and the module's
\* NLTK_AVAILABLE; a resource NLTK cannot look up raises inside the try block
_analyze_moral_foundations(text_, moral_foundations_, available, data) ==
    LET lowered == Lower(text_)
    IN IF available
       THEN IF data
            THEN MoralCounts(WordTokenize(lowered), EnglishStopwords, moral_foundations_)
            ELSE ZeroProfile(moral_foundations_)
       ELSE MoralCounts(Split(lowered), MinimalStopwords, moral_foundations_)

-----------------------------------------------------------------------------
(* ImprovedBiasAnalyzer.analyze: the scorer and the explanation *)

\* the result of the short-text path
ShortResult ==
    [bias_score |-> Frac(0, 1),
     confidence |-> Frac(1, 10),
     explanation |-> "Text is too short for reliable analysis."]

\* the length check applied to the raw text, without strip(): a fault that
\* C1_ShortTextResult detects
TooShortUnstripped(text_) == text_ = "" \/ Len(text_) < MinTextLength

\* `not text or len(text.strip()) < 50`
TooShort(text_) == text_ = "" \/ Len(Strip(text_)) < MinTextLength

\* dict.get(key, 0)
Get(d, key) == IF key \in DOMAIN d THEN d[key] ELSE 0

\* total_left / total_right after the first k categories (side 2 = left, 3 = right)
RECURSIVE CategoryTotal(_, _, _)
CategoryTotal(lexicon_results_, side, k) ==
    IF k = 0 THEN 0
    ELSE CategoryTotal(lexicon_results_, side, k - 1)
            + Get(lexicon_results_, Categories[k][side])

\* the category score taken left minus right: a fault that C15_Healthcare detects
TopicBiasSwapped(lexicon_results_) ==
    LET left_count(k) == Get(lexicon_results_, Categories[k][2])
        right_count(k) == Get(lexicon_results_, Categories[k][3])
        present == {k \in 1..Len(Categories) : left_count(k) + right_count(k) > 0}
        index(category) == CHOOSE k \in present : Categories[k][1] = category
    IN [category \in {Categories[k][1] : k \in present} |->
            [score |-> Frac(left_count(index(category)) - right_count(index(category)),
                            left_count(index(category)) + right_count(index(category))),
             left_terms |-> left_count(index(category)),
             right_terms |-> right_count(index(category))]]

\* an entry for every category, hit or not: a fault that C5_TopicAnalysis detects
TopicBiasUnfiltered(lexicon_results_) ==
    LET left_count(k) == Get(lexicon_results_, Categories[k][2])
        right_count(k) == Get(lexicon_results_, Categories[k][3])
        index(category) == CHOOSE k \in 1..Len(Categories) : Categories[k][1] = category
    IN [category \in {Categories[k][1] : k \in 1..Len(Categories)} |->
            [score |-> IF left_count(index(category)) + right_count(index(category)) > 0
                       THEN Frac(right_count(index(category)) - left_count(index(category)),
                                 left_count(index(category)) + right_count(index(category)))
                       ELSE Frac(0, 1),
             left_terms |-> left_count(index(category)),
             right_terms |-> right_count(index(category))]]

\* topic_bias: an entry for each category with a hit on either axis
TopicBias(lexicon_results_) ==
    LET left_count(k) == Get(lexicon_results_, Categories[k][2])
        right_count(k) == Get(lexicon_results_, Categories[k][3])
        present == {k \in 1..Len(Categories) : left_count(k) + right_count(k) > 0}
        index(category) == CHOOSE k \in present : Categories[k][1] = category
    IN [category \in {Categories[k][1] : k \in present} |->
            [score |-> Frac(right_count(index(category)) - left_count(index(category)),
                            left_count(index(category)) + right_count(index(category))),
             left_terms |-> left_count(index(category)),
             right_terms |-> right_count(index(category))]]

\* the score with the sides exchanged: a fault that C2_BiasScore detects
BiasScoreSwapped(total_left, total_right) ==
    IF total_left + total_right > 0
    THEN Frac(total_left - total_right, total_left + total_right)
    ELSE Frac(0, 1)

\* bias_score from the two totals
BiasScore(total_left, total_right) ==
    IF total_left + total_right > 0
    THEN Frac(total_right - total_left, total_left + total_right)
    ELSE Frac(0, 1)

\* the floor of the short-text path, 0.1, used for the full path too: a fault that
\* C13_NoIndicators detects
ConfidenceLowFloor(total_terms) ==
    FracMin(Frac(9, 10), FracMax(Frac(1, 10), FracMin(Frac(total_terms, 20), Frac(9, 10))))

\* the confidence without its floor of 0.3: a fault that C4_Confidence detects
ConfidenceNoFloor(total_terms) == FracMin(Frac(9, 10), Frac(total_terms, 20))

\* confidence = min(0.9, max(0.3, min(total_terms / 20, 0.9)))
Confidence(total_terms) ==
    FracMin(Frac(9, 10), FracMax(Frac(3, 10), FracMin(Frac(total_terms, 20), Frac(9, 10))))

\* the right-hand tests made strict like the left-hand ones, `<` for `<=`: a fault
\* that C21_Mirror detects
BiasCategoryStrict(bias_score) ==
    IF FracLt(bias_score, Frac(-6, 10)) THEN "Strongly Left-leaning"
    ELSE IF FracLt(bias_score, Frac(-3, 10)) THEN "Moderately Left-leaning"
    ELSE IF FracLt(bias_score, Frac(-1, 10)) THEN "Slightly Left-leaning"
    ELSE IF FracLt(bias_score, Frac(1, 10)) THEN "Neutral"
    ELSE IF FracLt(bias_score, Frac(3, 10)) THEN "Slightly Right-leaning"
    ELSE IF FracLt(bias_score, Frac(6, 10)) THEN "Moderately Right-leaning"
    ELSE "Strongly Right-leaning"

\* the chain made symmetric, `<= -0.1` for `< -0.1`: a fault that C3_Label detects
BiasCategorySymmetric(bias_score) ==
    IF FracLt(bias_score, Frac(-6, 10)) THEN "Strongly Left-leaning"
    ELSE IF FracLt(bias_score, Frac(-3, 10)) THEN "Moderately Left-leaning"
    ELSE IF FracLe(bias_score, Frac(-1, 10)) THEN "Slightly Left-leaning"
    ELSE IF FracLe(bias_score, Frac(1, 10)) THEN "Neutral"
    ELSE IF FracLe(bias_score, Frac(3, 10)) THEN "Slightly Right-leaning"
    ELSE IF FracLe(bias_score, Frac(6, 10)) THEN "Moderately Right-leaning"
    ELSE "Strongly Right-leaning"

\* the if / elif chain that names the bias category
BiasCategory(bias_score) ==
    IF FracLt(bias_score, Frac(-6, 10)) THEN "Strongly Left-leaning"
    ELSE IF FracLt(bias_score, Frac(-3, 10)) THEN "Moderately Left-leaning"
    ELSE IF FracLt(bias_score, Frac(-1, 10)) THEN "Slightly Left-leaning"
    ELSE IF FracLe(bias_score, Frac(1, 10)) THEN "Neutral"
    ELSE IF FracLe(bias_score, Frac(3, 10)) THEN "Slightly Right-leaning"
    ELSE IF FracLe(bias_score, Frac(6, 10)) THEN "Moderately Right-leaning"
    ELSE "Strongly Right-leaning"

\* sum(moral_results.values()), in the order of the table
RECURSIVE MoralTotal(_, _)
MoralTotal(moral_results_, k) ==
    IF k = 0 THEN Frac(0, 1)
    ELSE FracAdd(MoralTotal(moral_results_, k - 1), moral_results_[Foundations[k]])

\* moral_profile: renormalised, and left empty when nothing was counted
MoralProfile(moral_results_) ==
    LET total_moral == MoralTotal(moral_results_, Len(Foundations))
    IN IF FracLt(Frac(0, 1), total_moral)
       THEN [foundation \in DOMAIN moral_results_ |->
                FracDiv(moral_results_[foundation], total_moral)]
       ELSE <<>>

\* the significance test written `>= 2`: a fault that C17_TopicClauses detects
RECURSIVE SignificantTopicsFromTwo(_, _)
SignificantTopicsFromTwo(topic_bias, k) ==
    IF k > Len(Categories) THEN <<>>
    ELSE LET category == Categories[k][1]
         IN IF /\ category \in DOMAIN topic_bias
               /\ topic_bias[category].left_terms + topic_bias[category].right_terms >= 2
            THEN <<Replace(category, "_", " ") \o " is "
                     \o (IF FracLt(Frac(0, 1), topic_bias[category].score)
                         THEN "right-leaning" ELSE "left-leaning")>>
                 \o SignificantTopicsFromTwo(topic_bias, k + 1)
            ELSE SignificantTopicsFromTwo(topic_bias, k + 1)

\* significant_topics: the clauses of the categories with more than 2 mentions
RECURSIVE SignificantTopics(_, _)
SignificantTopics(topic_bias, k) ==
    IF k > Len(Categories) THEN <<>>
    ELSE LET category == Categories[k][1]
         IN IF /\ category \in DOMAIN topic_bias
               /\ topic_bias[category].left_terms + topic_bias[category].right_terms > 2
            THEN <<Replace(category, "_", " ") \o " is "
                     \o (IF FracLt(Frac(0, 1), topic_bias[category].score)
                         THEN "right-leaning" ELSE "left-leaning")>>
                 \o SignificantTopics(topic_bias, k + 1)
            ELSE SignificantTopics(topic_bias, k + 1)

\* max(moral_profile, key=moral_profile.get): the first foundation with the top value
DominantFoundation(moral_profile) ==
    LET top == Min({k \in 1..Len(Foundations) :
                    \A j \in 1..Len(Foundations) :
                        FracLe(moral_profile[Foundations[j]], moral_profile[Foundations[k]])})
    IN Foundations[top]

MoralSentence(foundation) ==
    "The content emphasizes the moral foundation of " \o foundation \o ". "

LowConfidenceNote ==
    "Note that this analysis has low confidence due to limited political indicators in the text."

\* the explanation returned without the final strip(): a fault that C22_BareClause
\* detects
ExplanationUnstripped(bias_category, topic_bias, moral_profile, confidence) ==
    LET significant_topics == SignificantTopics(topic_bias, 1)
        base == "This content appears to be " \o Lower(bias_category) \o ", "
        topics == IF Len(significant_topics) > 0
                  THEN "with " \o Join(", ", significant_topics) \o ". "
                  ELSE ""
        moral == IF moral_profile # <<>>
                    /\ FracLt(Frac(3, 10), moral_profile[DominantFoundation(moral_profile)])
                 THEN MoralSentence(DominantFoundation(moral_profile))
                 ELSE ""
        note == IF FracLt(confidence, Frac(1, 2)) THEN LowConfidenceNote ELSE ""
    IN base \o topics \o moral \o note

\* the moral sentence given from a proportion of 0.3 on, `>=` for `>`: a fault that
\* C18_MoralSentence detects
ExplanationMoralFromThreshold(bias_category, topic_bias, moral_profile, confidence) ==
    LET significant_topics == SignificantTopics(topic_bias, 1)
        base == "This content appears to be " \o Lower(bias_category) \o ", "
        topics == IF Len(significant_topics) > 0
                  THEN "with " \o Join(", ", significant_topics) \o ". "
                  ELSE ""
        moral == IF moral_profile # <<>>
                    /\ FracLe(Frac(3, 10), moral_profile[DominantFoundation(moral_profile)])
                 THEN MoralSentence(DominantFoundation(moral_profile))
                 ELSE ""
        note == IF FracLt(confidence, Frac(1, 2)) THEN LowConfidenceNote ELSE ""
    IN Strip(base \o topics \o moral \o note)

\* the disclaimer given up to a confidence of 0.5, `<=` for `<`: a fault that
\* C19_Disclaimer detects
ExplanationNoteUpToHalf(bias_category, topic_bias, moral_profile, confidence) ==
    LET significant_topics == SignificantTopics(topic_bias, 1)
        base == "This content appears to be " \o Lower(bias_category) \o ", "
        topics == IF Len(significant_topics) > 0
                  THEN "with " \o Join(", ", significant_topics) \o ". "
                  ELSE ""
        moral == IF moral_profile # <<>>
                    /\ FracLt(Frac(3, 10), moral_profile[DominantFoundation(moral_profile)])
                 THEN MoralSentence(DominantFoundation(moral_profile))
                 ELSE ""
        note == IF FracLe(confidence, Frac(1, 2)) THEN LowConfidenceNote ELSE ""
    IN Strip(base \o topics \o moral \o note)

\* the explanation text, before and after the final strip()
Explanation(bias_category, topic_bias, moral_profile, confidence) ==
    LET significant_topics == SignificantTopics(topic_bias, 1)
        base == "This content appears to be " \o Lower(bias_category) \o ", "
        topics == IF Len(significant_topics) > 0
                  THEN "with " \o Join(", ", significant_topics) \o ". "
                  ELSE ""
        moral == IF moral_profile # <<>>
                    /\ FracLt(Frac(3, 10), moral_profile[DominantFoundation(moral_profile)])
                 THEN MoralSentence(DominantFoundation(moral_profile))
                 ELSE ""
        note == IF FracLt(confidence, Frac(1, 2)) THEN LowConfidenceNote ELSE ""
    IN Strip(base \o topics \o moral \o note)

\* the scorer without lines 469-473, the framing counts left out of the totals: a
\* fault that C16_FramingTotals detects
ScoreWithoutFraming(lexicon_results_, framing_results_, moral_results_) ==
    LET total_left == CategoryTotal(lexicon_results_, 2, Len(Categories))
        total_right == CategoryTotal(lexicon_results_, 3, Len(Categories))
        total_terms == total_left + total_right
        bias_score == BiasScore(total_left, total_right)
        confidence == Confidence(total_terms)
        bias_category == BiasCategory(bias_score)
        topic_bias == TopicBias(lexicon_results_)
        moral_profile == MoralProfile(moral_results_)
    IN [bias_score |-> bias_score,
        confidence |-> confidence,
        interpretation |-> bias_category,
        topic_analysis |-> topic_bias,
        moral_foundations |-> moral_profile,
        explanation |-> Explanation(bias_category, topic_bias, moral_profile, confidence)]

\* analyze past the short-text check, from the three analyses to the returned dict
Score(lexicon_results_, framing_results_, moral_results_) ==
    LET total_left == CategoryTotal(lexicon_results_, 2, Len(Categories))
                        + Get(framing_results_, "left_frames")
        total_right == CategoryTotal(lexicon_results_, 3, Len(Categories))
                        + Get(framing_results_, "right_frames")
        total_terms == total_left + total_right
        bias_score == BiasScore(total_left, total_right)
        confidence == Confidence(total_terms)
        bias_category == BiasCategory(bias_score)
        topic_bias == TopicBias(lexicon_results_)
        moral_profile == MoralProfile(moral_results_)
    IN [bias_score |-> bias_score,
        confidence |-> confidence,
        interpretation |-> bias_category,
        topic_analysis |-> topic_bias,
        moral_foundations |-> moral_profile,
        explanation |-> Explanation(bias_category, topic_bias, moral_profile, confidence)]

-----------------------------------------------------------------------------
(* The texts the callers submit *)

\* how often a phrase or a word is repeated in a text, at most
MaxCount == 13
MaxRepeat == 10
MaxWords == 18
MaxMoral == 3
MaxTopic == 3
MaxFrames == 2
\* how many filler words pad a text beyond the length check
PadCount == 11
\* how many calls may be in flight at once
NumCallers == 2

RECURSIVE Rep(_, _)
Rep(piece, n) == IF n = 0 THEN "" ELSE piece \o Rep(piece, n - 1)

\* a word that is in no table
Filler == "zzzz "

Pad == Rep(Filler, PadCount)

\* left and right lexicon terms in every proportion
GridTexts ==
    {Rep("diversity ", l) \o Rep("Unborn ", r) \o Pad : l \in 0..MaxCount, r \in 0..MaxCount}

Phrases ==
    {"Free Market ", "free market ", "law and order ", "government overreach ", "family values ",
     "universal healthcare single-payer ", "LGBTQ+ rights ", "human rights ",
     "Regulation ", "deregulation ", "job-killing regulations ",
     "free market regulation ", "freedom ", "liberty, ", "tech growth ",
     "economic inequality "}

\* one phrase repeated, with and without padding
PhraseTexts ==
    {Rep(phrase, n) \o Rep(Filler, k) : phrase \in Phrases, n \in 1..MaxRepeat, k \in {0, PadCount}}

\* texts around the length threshold, with blanks to strip
LengthTexts ==
    {lead \o Rep("ab ", n) \o trail :
        lead \in {"", "  "}, n \in 0..MaxWords, trail \in {"", "x", "xy", "   "}}

\* foundation words in every proportion
MoralTexts ==
    {Rep("harm ", a) \o Rep("Fair ", b) \o Rep("loyal ", c) \o "sin sin " \o Pad :
        a \in 0..MaxMoral, b \in 0..MaxMoral, c \in 0..MaxMoral}

\* terms of three categories, each from no hit to a few
TopicTexts ==
    {Rep("inequality ", a) \o Rep("deregulation ", b) \o Rep("diversity ", c)
            \o Rep("tough on crime ", d) \o Pad :
        a \in 0..MaxTopic, b \in 0..MaxTopic, c \in 0..MaxTopic, d \in {0, MaxTopic}}

\* framing phrases of either side that are in no lexicon
FramingTexts ==
    {Rep("government overreach ", r) \o Rep("systemic discrimination ", l) \o Pad :
        l \in 0..MaxFrames, r \in 0..MaxFrames}

Texts ==
    GridTexts \cup PhraseTexts \cup LengthTexts \cup MoralTexts \cup TopicTexts
        \cup FramingTexts

\* the texts of the runs that keep a history or interleave calls
FewTexts ==
    {Rep("Free Market ", 5), Rep("diversity ", 2) \o "Unborn freedom " \o Pad,
     "LGBTQ+ rights law and order", Pad}

\* what a caller may pass as the text: analyze does not check the type
TextTypes == {"str", "bytes"}

\* the ways the import of NLTK and the lookup of its data can turn out:
\* <<NLTK_AVAILABLE, nltk_data>>
Environments == {<<TRUE, TRUE>>, <<TRUE, FALSE>>, <<FALSE, FALSE>>}

-----------------------------------------------------------------------------
(* The state machine *)

None == <<>>

\* self.tfidf = TfidfVectorizer(stop_words='english', max_features=5000), never fitted
Tfidf == [stop_words |-> "english", max_features |-> 5000, fitted |-> FALSE]

\* self.reference_articles
ReferenceArticles ==
    [left |-> <<"Democratic policies aim to address inequality and climate change.">>,
     center |-> <<"Both parties have proposed solutions to address economic challenges.">>,
     right |-> <<"Conservative approaches focus on free market solutions and limited government.">>]

InitOf(callers) ==
    /\ lexicons = _load_lexicons
    /\ framing_patterns = FramingPatterns
    /\ moral_foundations = MoralFoundations
    /\ tfidf = Tfidf
    /\ reference_articles = ReferenceArticles
    /\ \E env \in Environments : NLTK_AVAILABLE = env[1] /\ nltk_data = env[2]
    /\ pc = [c \in callers |-> "idle"]
    /\ text = [c \in callers |-> ""]
    /\ text_type = [c \in callers |-> "str"]
    /\ lexicon_results = [c \in callers |-> None]
    /\ framing_results = [c \in callers |-> None]
    /\ moral_results = [c \in callers |-> None]
    /\ result = [c \in callers |-> None]
    /\ seen = <<>>
    /\ request = [c \in callers |-> None]
    /\ response = [c \in callers |-> None]

\* a caller invokes analyze(t) with one of the texts
Call(c, texts, types) ==
    /\ pc[c] = "idle"
    /\ \E t \in texts : text' = [text EXCEPT ![c] = t]
    /\ \E type \in types : text_type' = [text_type EXCEPT ![c] = type]
    /\ pc' = [pc EXCEPT ![c] = "check"]
    /\ UNCHANGED <<tables, lexicon_results, framing_results, moral_results, result, seen, http>>

\* the short-text return
ReturnTooShort(c) ==
    /\ pc[c] = "check"
    /\ TooShort(text[c])
    /\ result' = [result EXCEPT ![c] = ShortResult]
    /\ pc' = [pc EXCEPT ![c] = "done"]
    /\ UNCHANGED <<tables, text, text_type, lexicon_results, framing_results, moral_results, seen, http>>

\* the counter emptying, in the table itself, the term lists that had no hit: a
\* fault that C7_Pure detects
CountLexiconTermsPruning(c) ==
    /\ pc[c] = "check"
    /\ ~TooShort(text[c])
    /\ lexicon_results' =
            [lexicon_results EXCEPT ![c] = _count_lexicon_terms(text[c], lexicons)]
    /\ lexicons' = [category \in DOMAIN lexicons |->
                        IF _count_lexicon_terms(text[c], lexicons)[category] = 0
                        THEN <<>>
                        ELSE lexicons[category]]
    /\ pc' = [pc EXCEPT ![c] = "framing"]
    /\ UNCHANGED <<framing_patterns, moral_foundations, tfidf, reference_articles,
                   NLTK_AVAILABLE, nltk_data>>
    /\ UNCHANGED <<text, text_type, framing_results, moral_results, result, seen, http>>

\* 1. lexicon_results = self._count_lexicon_terms(text, self.lexicons); re.findall
\* with a str pattern raises TypeError on bytes, and nothing in the counter or in
\* analyze catches it
CountLexiconTerms(c) ==
    /\ pc[c] = "check"
    /\ ~TooShort(text[c])
    /\ LET returned == IF text_type[c] = "bytes"
                       THEN Raised
                       ELSE _count_lexicon_terms(text[c], lexicons)
       IN IF returned = Raised
          THEN /\ pc' = [pc EXCEPT ![c] = "raised"]
               /\ UNCHANGED lexicon_results
          ELSE /\ pc' = [pc EXCEPT ![c] = "framing"]
               /\ lexicon_results' = [lexicon_results EXCEPT ![c] = returned]
    /\ UNCHANGED <<tables, text, text_type, framing_results, moral_results, result, seen, http>>

\* the framing counts kept in one attribute of the instance, which every call in
\* flight then reads: a fault that C8_Isolated detects
AnalyzeFramingShared(c) ==
    /\ pc[c] = "framing"
    /\ framing_results' =
            [d \in DOMAIN pc |->
                IF d = c \/ pc[d] \in {"moral", "score"}
                THEN _analyze_framing(text[c], framing_patterns)
                ELSE framing_results[d]]
    /\ pc' = [pc EXCEPT ![c] = "moral"]
    /\ UNCHANGED <<tables, text, text_type, lexicon_results, moral_results, result, seen, http>>

\* 2. framing_results = self._analyze_framing(text); as in the counter, re.findall
\* on bytes raises and nothing catches it
AnalyzeFraming(c) ==
    /\ pc[c] = "framing"
    /\ LET returned == IF text_type[c] = "bytes"
                       THEN Raised
                       ELSE _analyze_framing(text[c], framing_patterns)
       IN IF returned = Raised
          THEN /\ pc' = [pc EXCEPT ![c] = "raised"]
               /\ UNCHANGED framing_results
          ELSE /\ pc' = [pc EXCEPT ![c] = "moral"]
               /\ framing_results' = [framing_results EXCEPT ![c] = returned]
    /\ UNCHANGED <<tables, text, text_type, lexicon_results, moral_results, result, seen, http>>

\* 3. moral_results = self._analyze_moral_foundations(text); an exception that
\* leaves the profiler leaves analyze too
AnalyzeMoralFoundations(c) ==
    /\ pc[c] = "moral"
    /\ LET returned == _analyze_moral_foundations(text[c], moral_foundations,
                                                  NLTK_AVAILABLE, nltk_data)
       IN IF returned = Raised
          THEN /\ pc' = [pc EXCEPT ![c] = "raised"]
               /\ UNCHANGED moral_results
          ELSE /\ pc' = [pc EXCEPT ![c] = "score"]
               /\ moral_results' = [moral_results EXCEPT ![c] = returned]
    /\ UNCHANGED <<tables, text, text_type, lexicon_results, framing_results, result, seen, http>>

\* the rest of analyze: totals, scores, label, explanation, and the returned dict
BuildResult(c) ==
    /\ pc[c] = "score"
    /\ result' =
            [result EXCEPT ![c] =
                Score(lexicon_results[c], framing_results[c], moral_results[c])]
    /\ pc' = [pc EXCEPT ![c] = "done"]
    /\ UNCHANGED <<tables, text, text_type, lexicon_results, framing_results, moral_results, seen, http>>

\* the frame of the call is gone
Forget(c) ==
    /\ pc' = [pc EXCEPT ![c] = "idle"]
    /\ text' = [text EXCEPT ![c] = ""]
    /\ text_type' = [text_type EXCEPT ![c] = "str"]
    /\ lexicon_results' = [lexicon_results EXCEPT ![c] = None]
    /\ framing_results' = [framing_results EXCEPT ![c] = None]
    /\ moral_results' = [moral_results EXCEPT ![c] = None]
    /\ result' = [result EXCEPT ![c] = None]
    /\ UNCHANGED tables

\* the caller takes the result, or the exception
Return(c) ==
    /\ pc[c] \in {"done", "raised"}
    /\ Forget(c)
    /\ UNCHANGED <<seen, http>>

\* the same, with the history remembering the first answer to each text
ReturnRecorded(c) ==
    /\ pc[c] \in {"done", "raised"}
    /\ Forget(c)
    /\ seen' = IF pc[c] = "raised" \/ \E i \in DOMAIN seen : seen[i].text = text[c]
               THEN seen
               ELSE Append(seen, [text |-> text[c], result |-> result[c]])
    /\ UNCHANGED http

\* one caller, every text
Init == InitOf({1})

Next ==
    \/ \E c \in DOMAIN pc : Call(c, Texts, TextTypes)
    \/ \E c \in DOMAIN pc : ReturnTooShort(c)
    \/ \E c \in DOMAIN pc : CountLexiconTerms(c)
    \/ \E c \in DOMAIN pc : AnalyzeFraming(c)
    \/ \E c \in DOMAIN pc : AnalyzeMoralFoundations(c)
    \/ \E c \in DOMAIN pc : BuildResult(c)
    \/ \E c \in DOMAIN pc : Return(c)

Spec == Init /\ [][Next]_vars

\* one caller, few texts, with the history of answers
NextRepeat ==
    \/ \E c \in DOMAIN pc : Call(c, FewTexts, {"str"})
    \/ \E c \in DOMAIN pc : ReturnTooShort(c)
    \/ \E c \in DOMAIN pc : CountLexiconTerms(c)
    \/ \E c \in DOMAIN pc : AnalyzeFraming(c)
    \/ \E c \in DOMAIN pc : AnalyzeMoralFoundations(c)
    \/ \E c \in DOMAIN pc : BuildResult(c)
    \/ \E c \in DOMAIN pc : ReturnRecorded(c)

SpecRepeat == Init /\ [][NextRepeat]_vars

\* several callers on the one instance, their steps interleaved
InitConc == InitOf(1..NumCallers)

NextConc ==
    \/ \E c \in DOMAIN pc : Call(c, FewTexts, {"str"})
    \/ \E c \in DOMAIN pc : ReturnTooShort(c)
    \/ \E c \in DOMAIN pc : CountLexiconTerms(c)
    \/ \E c \in DOMAIN pc : AnalyzeFraming(c)
    \/ \E c \in DOMAIN pc : AnalyzeMoralFoundations(c)
    \/ \E c \in DOMAIN pc : BuildResult(c)
    \/ \E c \in DOMAIN pc : Return(c)

SpecConc == InitConc /\ [][NextConc]_vars

\* the three analyses of lines 427-433 taken in any order: the call is past the
\* length check and the analysis has not run yet
Pending(c, local) ==
    /\ \/ pc[c] = "check" /\ ~TooShort(text[c])
       \/ pc[c] = "analyses"
    /\ local[c] = None

\* where the call stands after one of the three, given the locals of the other two
After(c, other, another) ==
    IF other[c] # None /\ another[c] # None THEN "score" ELSE "analyses"

CountLexiconTermsAnyOrder(c) ==
    /\ Pending(c, lexicon_results)
    /\ lexicon_results' =
            [lexicon_results EXCEPT ![c] = _count_lexicon_terms(text[c], lexicons)]
    /\ pc' = [pc EXCEPT ![c] = After(c, framing_results, moral_results)]
    /\ UNCHANGED <<tables, text, text_type, framing_results, moral_results, result, seen, http>>

\* the framing detector leaving out what the counter has counted before it: a fault
\* that C20_OrderIndependent detects
AnalyzeFramingAfterCounter(c) ==
    /\ Pending(c, framing_results)
    /\ framing_results' =
            [framing_results EXCEPT ![c] =
                IF lexicon_results[c] # None
                THEN [frame_type \in DOMAIN framing_patterns |-> 0]
                ELSE _analyze_framing(text[c], framing_patterns)]
    /\ pc' = [pc EXCEPT ![c] = After(c, lexicon_results, moral_results)]
    /\ UNCHANGED <<tables, text, text_type, lexicon_results, moral_results, result, seen, http>>

AnalyzeFramingAnyOrder(c) ==
    /\ Pending(c, framing_results)
    /\ framing_results' =
            [framing_results EXCEPT ![c] = _analyze_framing(text[c], framing_patterns)]
    /\ pc' = [pc EXCEPT ![c] = After(c, lexicon_results, moral_results)]
    /\ UNCHANGED <<tables, text, text_type, lexicon_results, moral_results, result, seen, http>>

AnalyzeMoralFoundationsAnyOrder(c) ==
    /\ Pending(c, moral_results)
    /\ moral_results' =
            [moral_results EXCEPT ![c] =
                _analyze_moral_foundations(text[c], moral_foundations,
                                           NLTK_AVAILABLE, nltk_data)]
    /\ pc' = [pc EXCEPT ![c] = After(c, lexicon_results, framing_results)]
    /\ UNCHANGED <<tables, text, text_type, lexicon_results, framing_results, result, seen, http>>

\* one caller, few texts, the three analyses in every order, with the history
NextAnyOrder ==
    \/ \E c \in DOMAIN pc : Call(c, FewTexts, {"str"})
    \/ \E c \in DOMAIN pc : ReturnTooShort(c)
    \/ \E c \in DOMAIN pc : CountLexiconTermsAnyOrder(c)
    \/ \E c \in DOMAIN pc : AnalyzeFramingAnyOrder(c)
    \/ \E c \in DOMAIN pc : AnalyzeMoralFoundationsAnyOrder(c)
    \/ \E c \in DOMAIN pc : BuildResult(c)
    \/ \E c \in DOMAIN pc : ReturnRecorded(c)

SpecAnyOrder == Init /\ [][NextAnyOrder]_vars

-----------------------------------------------------------------------------
(* The Flask handlers of POST /api/analyze, app.py and app_improved.py *)

\* the two applications; each imports nltk.sentiment unguarded and builds one
\* ImprovedBiasAnalyzer at import
Apps == {"app", "app_improved"}

\* `if len(article_text.split()) < 10`
MinWords == 10

\* the word-count test of the handlers, `<=` for `<`: a fault that C23_ShortRequest
\* detects
TooFewWordsInclusive(text_) == Cardinality(DOMAIN Split(text_)) <= MinWords

TooFewWords(text_) == Cardinality(DOMAIN Split(text_)) < MinWords

\* jsonify({"error": message}), status
ErrorResponse(status, message) == [status |-> status, body |-> [error |-> message]]

\* the two 400 answers that precede the try block, or None when the request passes
Rejection(request_, text_) ==
    IF ~request_.has_text THEN ErrorResponse(400, "No text provided")
    ELSE IF TooFewWords(text_)
         THEN ErrorResponse(400, "Text is too short for meaningful analysis")
         ELSE None

\* `except Exception as e`: jsonify({"error": f"Analysis failed: {str(e)}"}), 500
AnalysisFailed(str_e) == ErrorResponse(500, "Analysis failed: " \o str_e)

\* str(e) of the LookupError of SentimentIntensityAnalyzer() without the
\* vader_lexicon resource; the wording is NLTK's and stands here in short
LookupErrorText == "Resource vader_lexicon not found."

\* str(e) of the TypeError of re.findall
TypeErrorText == "cannot use a string pattern on a bytes-like object"

\* str(KeyError('interpretation'))
KeyErrorText == "'interpretation'"

\* bias_analysis.get(key, default)
GetOr(d, key, default) == IF key \in DOMAIN d THEN d[key] ELSE default

\* jsonify(response): the "bias" object and the status.  The "sentiment" and
\* "objectivity" objects carry the outputs of VADER and TextBlob, which are not part
\* of this model.
Ok(score, interpretation, confidence, explanation, topic_analysis, moral_foundations_) ==
    [status |-> 200,
     body |-> [bias |-> [score |-> score,
                         interpretation |-> interpretation,
                         confidence |-> confidence,
                         explanation |-> explanation,
                         topic_analysis |-> topic_analysis,
                         moral_foundations |-> moral_foundations_]]]

\* app.py, lines 53-108: the try block after bias_analyzer.analyze has returned
\* bias_analysis or raised; bias_analysis["interpretation"] is a subscript, and
\* analyze_sentiment, called after it, lets the LookupError of NLTK through
AppRespond(bias_analysis, raised, data) ==
    IF raised THEN AnalysisFailed(TypeErrorText)
    ELSE IF "interpretation" \notin DOMAIN bias_analysis THEN AnalysisFailed(KeyErrorText)
    ELSE IF ~data THEN AnalysisFailed(LookupErrorText)
    ELSE Ok(bias_analysis.bias_score, bias_analysis.interpretation,
            bias_analysis.confidence, bias_analysis.explanation,
            GetOr(bias_analysis, "topic_analysis", <<>>),
            GetOr(bias_analysis, "moral_foundations", <<>>))

\* app_improved.py, lines 80-138: every field read by .get, and analyze_sentiment
\* and analyze_subjectivity with fallbacks of their own
AppImprovedRespond(bias_analysis, raised) ==
    IF raised THEN AnalysisFailed(TypeErrorText)
    ELSE Ok(GetOr(bias_analysis, "bias_score", Frac(0, 1)),
            GetOr(bias_analysis, "interpretation", "Neutral"),
            GetOr(bias_analysis, "confidence", Frac(0, 1)),
            GetOr(bias_analysis, "explanation", ""),
            GetOr(bias_analysis, "topic_analysis", <<>>),
            GetOr(bias_analysis, "moral_foundations", <<>>))

\* a request reaches analyze_text of one of the applications: JSON with a "text"
\* string, or without the key
Post(c, apps, texts) ==
    /\ pc[c] = "idle"
    /\ \E a \in apps, has_text \in BOOLEAN :
            /\ request' = [request EXCEPT ![c] = [app |-> a, has_text |-> has_text]]
            /\ IF has_text
               THEN \E t \in texts : text' = [text EXCEPT ![c] = t]
               ELSE UNCHANGED text
    /\ pc' = [pc EXCEPT ![c] = "request"]
    /\ UNCHANGED <<tables, text_type, lexicon_results, framing_results, moral_results,
                   result, seen, response>>

\* the checks before the try block: a 400, or the call of bias_analyzer.analyze
Validate(c) ==
    /\ pc[c] = "request"
    /\ LET rejection == Rejection(request[c], text[c])
       IN IF rejection # None
          THEN /\ response' = [response EXCEPT ![c] = rejection]
               /\ pc' = [pc EXCEPT ![c] = "responded"]
          ELSE /\ pc' = [pc EXCEPT ![c] = "check"]
               /\ UNCHANGED response
    /\ UNCHANGED <<tables, text, text_type, lexicon_results, framing_results, moral_results,
                   result, seen, request>>

\* analyze has returned or raised: the rest of the try block, or the except clause
Respond(c) ==
    /\ pc[c] \in {"done", "raised"}
    /\ request[c] # None
    /\ response' =
            [response EXCEPT ![c] =
                IF request[c].app = "app"
                THEN AppRespond(result[c], pc[c] = "raised", nltk_data)
                ELSE AppImprovedRespond(result[c], pc[c] = "raised")]
    /\ pc' = [pc EXCEPT ![c] = "responded"]
    /\ UNCHANGED <<tables, text, text_type, lexicon_results, framing_results, moral_results,
                   result, seen, request>>

\* the response is sent and the frame of the handler is gone
Close(c) ==
    /\ pc[c] = "responded"
    /\ Forget(c)
    /\ request' = [request EXCEPT ![c] = None]
    /\ response' = [response EXCEPT ![c] = None]
    /\ UNCHANGED seen

\* texts of the handlers: lengths around both thresholds, and a few full texts
AppTexts == LengthTexts \cup FewTexts

\* the applications run only where nltk can be imported
InitApp == InitOf({1}) /\ NLTK_AVAILABLE

NextApp ==
    \/ \E c \in DOMAIN pc : Post(c, Apps, AppTexts)
    \/ \E c \in DOMAIN pc : Validate(c)
    \/ \E c \in DOMAIN pc : ReturnTooShort(c)
    \/ \E c \in DOMAIN pc : CountLexiconTerms(c)
    \/ \E c \in DOMAIN pc : AnalyzeFraming(c)
    \/ \E c \in DOMAIN pc : AnalyzeMoralFoundations(c)
    \/ \E c \in DOMAIN pc : BuildResult(c)
    \/ \E c \in DOMAIN pc : Respond(c)
    \/ \E c \in DOMAIN pc : Close(c)

SpecApp == InitApp /\ [][NextApp]_vars

-----------------------------------------------------------------------------
(* The properties *)

FullResultFields ==
    {"bias_score", "confidence", "interpretation", "topic_analysis",
     "moral_foundations", "explanation"}

LeftAxes ==
    {"economy_left", "social_left", "environment_left", "healthcare_left",
     "immigration_left", "foreign_left", "education_left", "criminal_justice_left",
     "technology_left"}

RightAxes ==
    {"economy_right", "social_right", "environment_right", "healthcare_right",
     "immigration_right", "foreign_right", "education_right", "criminal_justice_right",
     "technology_right"}

\* the lexicon axis prefix of each category of topic_analysis
AxisPrefix ==
    [economic |-> "economy", social |-> "social", environmental |-> "environment",
     healthcare |-> "healthcare", immigration |-> "immigration", foreign |-> "foreign",
     education |-> "education", criminal_justice |-> "criminal_justice",
     technology |-> "technology"]

\* how many characters remain between the first and the last non-blank one
TrimmedLength(s) ==
    LET inner == {i \in 1..Len(s) : CharAt(s, i) # " "}
    IN IF inner = {} THEN 0 ELSE Max(inner) - Min(inner) + 1

\* the call of c has returned from the full path
FullDone(c) == pc[c] = "done" /\ lexicon_results[c] # None

\* the totals of a call, summed axis by axis
TotalLeft(c) == SumInts(lexicon_results[c], LeftAxes) + framing_results[c].left_frames
TotalRight(c) == SumInts(lexicon_results[c], RightAxes) + framing_results[c].right_frames

\* C1: a text that is empty or whose trimmed length is below 50 gets exactly the
\* short result (bias_score 0, confidence 0.1, the fixed explanation, no other
\* field) and none of the three analyses runs; from trimmed length 50 on the call
\* takes the full path.
C1_ShortTextResult ==
    \A c \in DOMAIN pc :
        pc[c] = "done" =>
            IF TrimmedLength(text[c]) < 50
            THEN /\ result[c] = [bias_score |-> Frac(0, 1),
                                 confidence |-> Frac(1, 10),
                                 explanation |-> "Text is too short for reliable analysis."]
                 /\ lexicon_results[c] = None
                 /\ framing_results[c] = None
                 /\ moral_results[c] = None
            ELSE /\ DOMAIN result[c] = FullResultFields
                 /\ lexicon_results[c] # None
                 /\ framing_results[c] # None
                 /\ moral_results[c] # None

\* a text of 50 or more characters whose trimmed length is 49 was answered short
C1_Witness ==
    \E c \in DOMAIN pc :
        /\ pc[c] = "done"
        /\ Len(text[c]) >= 50
        /\ TrimmedLength(text[c]) = 49
        /\ DOMAIN result[c] = {"bias_score", "confidence", "explanation"}

\* C2: on the full path bias_score is (total_right - total_left) / total_terms, or 0
\* without any term, the totals being the nine left (right) axis counts plus the
\* left (right) framing count; so it lies in [-1, 1], is -1 or +1 exactly when only
\* one side has hits, and is positive exactly when total_right > total_left.
C2_BiasScore ==
    \A c \in DOMAIN pc :
        FullDone(c) =>
            LET L == TotalLeft(c)
                R == TotalRight(c)
                b == result[c].bias_score
            IN /\ b.den > 0
               /\ L + R > 0 => b.num * (L + R) = (R - L) * b.den
               /\ L + R = 0 => b.num = 0
               /\ -b.den <= b.num /\ b.num <= b.den
               /\ (b.num = b.den \/ b.num = -b.den) <=> ((L = 0) # (R = 0))
               /\ b.num > 0 <=> R > L

\* a text with left terms, right terms and a framing match was scored
C2_Witness ==
    \E c \in DOMAIN pc :
        /\ FullDone(c)
        /\ framing_results[c].right_frames > 0
        /\ TotalLeft(c) > 0
        /\ TotalRight(c) > TotalLeft(c)

\* C3: the label follows from bias_score by the thresholds -0.6, -0.3, -0.1 (strict)
\* and 0.1, 0.3, 0.6 (inclusive): each of the seven labels is given on its interval
\* and on no other score, and the totals 11 left, 9 right (score -0.1) give Neutral.
C3_Label ==
    \A c \in DOMAIN pc :
        FullDone(c) =>
            LET n == 10 * result[c].bias_score.num
                d == result[c].bias_score.den
                label == result[c].interpretation
            IN /\ label = "Strongly Left-leaning" <=> n < -6 * d
               /\ label = "Moderately Left-leaning" <=> -6 * d <= n /\ n < -3 * d
               /\ label = "Slightly Left-leaning" <=> -3 * d <= n /\ n < -d
               /\ label = "Neutral" <=> -d <= n /\ n <= d
               /\ label = "Slightly Right-leaning" <=> d < n /\ n <= 3 * d
               /\ label = "Moderately Right-leaning" <=> 3 * d < n /\ n <= 6 * d
               /\ label = "Strongly Right-leaning" <=> 6 * d < n
               /\ TotalLeft(c) = 11 /\ TotalRight(c) = 9 => label = "Neutral"

\* a text with 11 left and 9 right hits was labelled
C3_Witness ==
    \E c \in DOMAIN pc :
        /\ FullDone(c)
        /\ TotalLeft(c) = 11
        /\ TotalRight(c) = 9
        /\ result[c].interpretation = "Neutral"

\* C4: on the full path confidence is total_terms / 20 clamped to [0.3, 0.9]: 0.3 up
\* to 6 terms (0 included), total_terms / 20 from 6 to 18, 0.9 from 18 on; and a
\* returned confidence is 0.1 exactly on the short-text path.
C4_Confidence ==
    \A c \in DOMAIN pc :
        pc[c] = "done" =>
            LET conf == result[c].confidence
            IN /\ conf.den > 0
               /\ 10 * conf.num = conf.den <=> lexicon_results[c] = None
               /\ FullDone(c) =>
                    LET T == TotalLeft(c) + TotalRight(c)
                    IN /\ T <= 6 => 10 * conf.num = 3 * conf.den
                       /\ 6 <= T /\ T <= 18 => 20 * conf.num = T * conf.den
                       /\ T >= 18 => 10 * conf.num = 9 * conf.den
                       /\ 3 * conf.den <= 10 * conf.num
                       /\ 10 * conf.num <= 9 * conf.den

\* a text without any indicator went the full path and got confidence 0.3
C4_Witness ==
    \E c \in DOMAIN pc :
        /\ FullDone(c)
        /\ TotalLeft(c) + TotalRight(c) = 0
        /\ FracEq(result[c].confidence, Frac(3, 10))

\* C5: a category is in topic_analysis exactly when its two axis counts L and R
\* have L + R > 0; its entry is then {score: (R - L) / (L + R), left_terms: L,
\* right_terms: R} with the score in [-1, 1]; no other key occurs.
C5_TopicAnalysis ==
    \A c \in DOMAIN pc :
        FullDone(c) =>
            LET topics == result[c].topic_analysis
            IN /\ DOMAIN topics \subseteq DOMAIN AxisPrefix
               /\ \A category \in DOMAIN AxisPrefix :
                    LET L == lexicon_results[c][AxisPrefix[category] \o "_left"]
                        R == lexicon_results[c][AxisPrefix[category] \o "_right"]
                    IN /\ category \in DOMAIN topics <=> L + R > 0
                       /\ category \in DOMAIN topics =>
                            /\ DOMAIN topics[category] = {"score", "left_terms", "right_terms"}
                            /\ topics[category].left_terms = L
                            /\ topics[category].right_terms = R
                            /\ topics[category].score.den > 0
                            /\ topics[category].score.num * (L + R)
                                    = (R - L) * topics[category].score.den
                            /\ -topics[category].score.den <= topics[category].score.num
                            /\ topics[category].score.num <= topics[category].score.den

\* a text with left and right terms of one category, and none of another, was scored
C5_Witness ==
    \E c \in DOMAIN pc :
        /\ FullDone(c)
        /\ lexicon_results[c]["social_left"] > 0
        /\ lexicon_results[c]["social_right"] > 0
        /\ DOMAIN result[c].topic_analysis = {"social"}


FoundationNames == {"care", "fairness", "loyalty", "authority", "sanctity", "liberty"}

\* the tokens of the text that are terms of some foundation
FoundationTokens(s) ==
    LET tokens == Split(Lower(s))
    IN {i \in DOMAIN tokens :
            \E foundation \in FoundationNames : tokens[i] \in MoralFoundations[foundation]}

\* C6: in every full result moral_foundations maps each of the six foundations to a
\* proportion in [0, 1]; the six sum to 1 when a foundation term was counted, and
\* are all exactly 0 otherwise.
C6_MoralFoundations ==
    \A c \in DOMAIN pc :
        FullDone(c) =>
            LET profile == result[c].moral_foundations
                counted == \E foundation \in FoundationNames :
                                moral_results[c][foundation].num > 0
            IN /\ DOMAIN profile = FoundationNames
               /\ \A foundation \in FoundationNames :
                    /\ profile[foundation].den > 0
                    /\ 0 <= profile[foundation].num
                    /\ profile[foundation].num <= profile[foundation].den
               /\ IF counted
                  THEN FracEq(MoralTotal(profile, Len(Foundations)), Frac(1, 1))
                  ELSE \A foundation \in FoundationNames : profile[foundation].num = 0

\* C7: the tables and the other fields of the instance stay as __init__ set them,
\* and a text analysed again gets the result it got the first time, whatever was
\* analysed in between.
C7_Pure ==
    /\ lexicons = _load_lexicons
    /\ framing_patterns = FramingPatterns
    /\ moral_foundations = MoralFoundations
    /\ tfidf = Tfidf
    /\ reference_articles = ReferenceArticles
    /\ \A c \in DOMAIN pc :
        pc[c] = "done" =>
            \A i \in DOMAIN seen : seen[i].text = text[c] => result[c] = seen[i].result

\* the text analysed first was analysed again, on the full path, after another text
C7_Witness ==
    \E c \in DOMAIN pc :
        /\ FullDone(c)
        /\ Len(seen) >= 2
        /\ seen[1].text = text[c]
        /\ DOMAIN seen[2].result = FullResultFields

\* what analyze(t) returns to a caller that is alone on the instance
AnalyzeAlone(t) ==
    IF t = "" \/ TrimmedLength(t) < 50
    THEN [bias_score |-> Frac(0, 1),
          confidence |-> Frac(1, 10),
          explanation |-> "Text is too short for reliable analysis."]
    ELSE Score(_count_lexicon_terms(t, _load_lexicons),
               _analyze_framing(t, FramingPatterns),
               _analyze_moral_foundations(t, MoralFoundations, NLTK_AVAILABLE, nltk_data))

\* a step leaves alone whatever belongs to a call that does not take it
Untouched(c) ==
    pc'[c] = pc[c] =>
        /\ text'[c] = text[c]
        /\ text_type'[c] = text_type[c]
        /\ lexicon_results'[c] = lexicon_results[c]
        /\ framing_results'[c] = framing_results[c]
        /\ moral_results'[c] = moral_results[c]
        /\ result'[c] = result[c]

OccursAsWord(term, s) ==
    LET lowered == Lower(s)
        wanted == Lower(term)
        n == Len(wanted)
    IN \E i \in 1..(Len(lowered) - n + 1) :
        /\ SubSeq(lowered, i, i + n - 1) = wanted
        /\ i = 1 \/ CharAt(lowered, i - 1) \notin WordChars
        /\ i + n - 1 = Len(lowered) \/ CharAt(lowered, i + n) \notin WordChars

\* C9: the term counter matches every term of every list case-insensitively: a text
\* that contains a term as a whole word or phrase, in any letter case, has a count
\* of at least 1 on the axis of that term.
C9_CaseInsensitive ==
    \A c \in DOMAIN pc :
        lexicon_results[c] # None =>
            \A category \in DOMAIN lexicons :
                \A k \in DOMAIN lexicons[category] :
                    OccursAsWord(lexicons[category][k], text[c])
                        => lexicon_results[c][category] >= 1

\* the environment in which the NLTK import succeeded and its data is missing
ProfilerFails == NLTK_AVAILABLE /\ ~nltk_data

\* sub occurs in s
Contains(s, sub) ==
    \E i \in 1..(Len(s) - Len(sub) + 1) : SubSeq(s, i, i + Len(sub) - 1) = sub

\* C10: when a step of the moral profiler fails, the profiler returns the six
\* foundations at 0 and raises nothing, and analyze completes with bias_score,
\* confidence, interpretation, topic_analysis and explanation as for the same text
\* without foundation terms.
C10_ProfilerFailure ==
    \A c \in DOMAIN pc :
        ProfilerFails =>
            /\ pc[c] = "raised" => framing_results[c] = None
            /\ moral_results[c] # None =>
                    /\ DOMAIN moral_results[c] = FoundationNames
                    /\ \A foundation \in FoundationNames :
                            moral_results[c][foundation].num = 0
            /\ FullDone(c) =>
                LET plain == Score(lexicon_results[c], framing_results[c],
                                   [foundation \in FoundationNames |-> Frac(0, 1)])
                IN /\ result[c].bias_score = plain.bias_score
                   /\ result[c].confidence = plain.confidence
                   /\ result[c].interpretation = plain.interpretation
                   /\ result[c].topic_analysis = plain.topic_analysis
                   /\ result[c].explanation = plain.explanation
                   /\ ~Contains(result[c].explanation, "moral foundation")

\* a text with foundation terms was analysed to the end while the profiler failed
C10_Witness ==
    \E c \in DOMAIN pc :
        /\ ProfilerFails
        /\ FullDone(c)
        /\ Cardinality(FoundationTokens(text[c])) >= 2
        /\ DOMAIN result[c] = FullResultFields


\* the profile the fallback gives: the foundation terms among the whitespace-split
\* tokens that are not minimal stopwords, as shares of their number
FallbackProfile(s) ==
    LET tokens == Split(Lower(s))
        hits(foundation) ==
            Cardinality({i \in DOMAIN tokens :
                            /\ tokens[i] \in MoralFoundations[foundation]
                            /\ tokens[i] \notin MinimalStopwords})
        total == Cardinality({i \in DOMAIN tokens :
                                /\ tokens[i] \notin MinimalStopwords
                                /\ \E foundation \in FoundationNames :
                                        tokens[i] \in MoralFoundations[foundation]})
    IN [foundation \in FoundationNames |-> [hits |-> hits(foundation), total |-> total]]

\* C11: whenever the tokenizer or the stopword corpus is unavailable, at import or
\* only at the lookup during the call, the profiler falls back to whitespace split
\* and the minimal stopwords: a text with whitespace-separated foundation terms
\* gets the normalized count distribution, not the all-zero profile.
C11_Fallback ==
    \A c \in DOMAIN pc :
        (/\ moral_results[c] # None
         /\ ~(NLTK_AVAILABLE /\ nltk_data)
         /\ FoundationTokens(text[c]) # {}) =>
            /\ \E foundation \in FoundationNames : moral_results[c][foundation].num > 0
            /\ \A foundation \in FoundationNames :
                    LET expected == FallbackProfile(text[c])[foundation]
                    IN moral_results[c][foundation].num * expected.total
                            = expected.hits * moral_results[c][foundation].den

\* C12: no failure of a sub-computation aborts analyze: an exception inside the term
\* counter or the framing detector is caught there and replaced by zero counts, so
\* analyze never raises to its caller and always returns a result.
C12_NeverRaises ==
    \A c \in DOMAIN pc :
        /\ pc[c] # "raised"
        /\ pc[c] \in {"framing", "moral", "score"} => lexicon_results[c] # None

\* the words that are no lexicon term, framing phrase or foundation term
FillerWords == {"zzzz", "ab", "x", "xy"}

\* the text is made of filler words only
OnlyFiller(s) ==
    LET tokens == Split(Lower(s))
    IN \A i \in DOMAIN tokens : tokens[i] \in FillerWords

\* C13: a text of trimmed length 50 or more with no lexicon term and no framing
\* match gets bias_score 0, confidence 0.3, interpretation "Neutral" and an empty
\* topic_analysis.
C13_NoIndicators ==
    \A c \in DOMAIN pc :
        (/\ FullDone(c)
         /\ OnlyFiller(text[c]) \/ TotalLeft(c) + TotalRight(c) = 0) =>
            /\ result[c].bias_score.num = 0
            /\ 10 * result[c].confidence.num = 3 * result[c].confidence.den
            /\ result[c].interpretation = "Neutral"
            /\ DOMAIN result[c].topic_analysis = {}

\* a text of filler words only, 50 characters long after trimming, was analysed
C13_Witness ==
    \E c \in DOMAIN pc :
        /\ FullDone(c)
        /\ OnlyFiller(text[c])
        /\ TrimmedLength(text[c]) = 50
        /\ result[c].interpretation = "Neutral"


RightLabels == {"Slightly Right-leaning", "Moderately Right-leaning", "Strongly Right-leaning"}

\* "free market" ten times, alone or followed by filler words
FreeMarketTexts == {Rep("free market ", 10) \o Rep(Filler, k) : k \in {0, PadCount}}

\* C14: for "free market" repeated 10 times plus filler words the economy_right
\* count is at least 10, the economy_left count is 0, bias_score is above 0 and the
\* interpretation is one of the three right-leaning labels.
C14_FreeMarket ==
    \A c \in DOMAIN pc :
        (FullDone(c) /\ text[c] \in FreeMarketTexts) =>
            /\ lexicon_results[c]["economy_right"] >= 10
            /\ lexicon_results[c]["economy_left"] = 0
            /\ result[c].bias_score.num > 0
            /\ result[c].bias_score.den > 0
            /\ result[c].interpretation \in RightLabels

\* the text with filler was analysed: ten hits in economy_right, none elsewhere
C14_Witness ==
    \E c \in DOMAIN pc :
        /\ FullDone(c)
        /\ text[c] = Rep("free market ", 10) \o Pad
        /\ lexicon_results[c]["economy_right"] = 10
        /\ DOMAIN result[c].topic_analysis = {"economic"}

\* repetitions of "universal healthcare" and "single-payer", alone or with filler
HealthcareTexts ==
    {Rep("universal healthcare single-payer ", n) \o Rep(Filler, k) :
        n \in 1..MaxRepeat, k \in {0, PadCount}}

\* C15: for a text of repetitions of "universal healthcare" and "single-payer" only
\* the healthcare_left count is above 0, the healthcare_right count is 0, and
\* topic_analysis.healthcare.score is exactly -1.
C15_Healthcare ==
    \A c \in DOMAIN pc :
        (FullDone(c) /\ text[c] \in HealthcareTexts) =>
            /\ lexicon_results[c]["healthcare_left"] > 0
            /\ lexicon_results[c]["healthcare_right"] = 0
            /\ "healthcare" \in DOMAIN result[c].topic_analysis
            /\ result[c].topic_analysis["healthcare"].score.den > 0
            /\ result[c].topic_analysis["healthcare"].score.num
                    = -result[c].topic_analysis["healthcare"].score.den

\* two repetitions, long enough without filler, were analysed: four left hits
C15_Witness ==
    \E c \in DOMAIN pc :
        /\ FullDone(c)
        /\ text[c] = Rep("universal healthcare single-payer ", 2)
        /\ lexicon_results[c]["healthcare_left"] = 4
        /\ result[c].topic_analysis["healthcare"].right_terms = 0

\* the call counted framing matches and not one lexicon term
FramingOnly(c) ==
    /\ FullDone(c)
    /\ framing_results[c].left_frames + framing_results[c].right_frames > 0
    /\ \A category \in LeftAxes \cup RightAxes : lexicon_results[c][category] = 0

\* C16 as stated: a text whose only indicators are framing matches that are no
\* lexicon terms yields a nonzero bias_score together with an empty topic_analysis.
C16_FramingOnlyNonzero ==
    \A c \in DOMAIN pc :
        FramingOnly(c) =>
            /\ result[c].bias_score.num # 0
            /\ DOMAIN result[c].topic_analysis = {}

\* the lexicon hits that the entries of topic_analysis record, all together
TopicTerms(topics) ==
    LET terms == [category \in DOMAIN topics |->
                    topics[category].left_terms + topics[category].right_terms]
    IN SumInts(terms, DOMAIN topics)

\* C16, amended: framing matches enter the totals, and so bias_score and confidence,
\* and no entry of topic_analysis: the entries record the lexicon hits only, and a
\* text whose only indicators are framing matches gets an empty topic_analysis and
\* bias_score (right_frames - left_frames) / (left_frames + right_frames), which is
\* nonzero unless the two framing counts are equal.
C16_FramingTotals ==
    \A c \in DOMAIN pc :
        FullDone(c) =>
            LET left_frames == framing_results[c].left_frames
                right_frames == framing_results[c].right_frames
                b == result[c].bias_score
            IN /\ TopicTerms(result[c].topic_analysis) + left_frames + right_frames
                    = TotalLeft(c) + TotalRight(c)
               /\ FramingOnly(c) =>
                    /\ DOMAIN result[c].topic_analysis = {}
                    /\ b.den > 0
                    /\ b.num * (left_frames + right_frames)
                            = (right_frames - left_frames) * b.den
                    /\ b.num # 0 <=> left_frames # right_frames
                    /\ 20 * result[c].confidence.num
                            >= (left_frames + right_frames) * result[c].confidence.den

\* a text with one framing phrase of each side and no lexicon term was scored 0
C16_Witness ==
    \E c \in DOMAIN pc :
        /\ FramingOnly(c)
        /\ framing_results[c].left_frames = 1
        /\ framing_results[c].right_frames = 1
        /\ result[c].bias_score.num = 0
        /\ DOMAIN result[c].topic_analysis = {}


\* the categories in the order of the category table, as the explanation words them
CategoryWords ==
    <<<<"economic", "economic">>, <<"social", "social">>,
      <<"environmental", "environmental">>, <<"healthcare", "healthcare">>,
      <<"immigration", "immigration">>, <<"foreign", "foreign">>,
      <<"education", "education">>, <<"criminal_justice", "criminal justice">>,
      <<"technology", "technology">>>>

StartsWith(s, prefix) == Len(prefix) <= Len(s) /\ SubSeq(s, 1, Len(prefix)) = prefix

EndsWith(s, suffix) ==
    Len(suffix) <= Len(s) /\ SubSeq(s, Len(s) - Len(suffix) + 1, Len(s)) = suffix

\* the lexicon hits of the k-th category, left and right
LeftHits(c, k) == lexicon_results[c][AxisPrefix[CategoryWords[k][1]] \o "_left"]
RightHits(c, k) == lexicon_results[c][AxisPrefix[CategoryWords[k][1]] \o "_right"]

\* the clauses the claim expects from the k-th category on, each led by ", "
RECURSIVE ExpectedClauses(_, _)
ExpectedClauses(c, k) ==
    IF k > Len(CategoryWords) THEN ""
    ELSE IF LeftHits(c, k) + RightHits(c, k) > 2
         THEN ", " \o CategoryWords[k][2] \o " is "
                \o (IF RightHits(c, k) > LeftHits(c, k) THEN "right-leaning" ELSE "left-leaning")
                \o ExpectedClauses(c, k + 1)
         ELSE ExpectedClauses(c, k + 1)

\* C17: the explanation names a category exactly when its left_terms + right_terms
\* is above 2, as "right-leaning" when its score is above 0 and "left-leaning"
\* otherwise (also at score 0); the clauses stand in category-table order, joined
\* by ", ", after "with " and before ". ".
C17_TopicClauses ==
    \A c \in DOMAIN pc :
        FullDone(c) =>
            LET clauses == ExpectedClauses(c, 1)
                opening == "This content appears to be "
                                \o Lower(result[c].interpretation) \o ","
            IN /\ \A k \in 1..Len(CategoryWords) :
                    Contains(result[c].explanation, CategoryWords[k][2] \o " is ")
                        <=> LeftHits(c, k) + RightHits(c, k) > 2
               /\ IF clauses = ""
                  THEN /\ StartsWith(result[c].explanation, opening)
                       /\ ~Contains(result[c].explanation, "with ")
                  ELSE \/ result[c].explanation
                            = opening \o " with " \o SubSeq(clauses, 3, Len(clauses)) \o "."
                       \/ StartsWith(result[c].explanation,
                            opening \o " with " \o SubSeq(clauses, 3, Len(clauses)) \o ". ")

\* a balanced category with 4 hits was named left-leaning before a right-leaning
\* one, and a category with exactly 2 hits was left out
C17_Witness ==
    \E c \in DOMAIN pc :
        /\ FullDone(c)
        /\ lexicon_results[c]["economy_left"] = 2
        /\ lexicon_results[c]["economy_right"] = 2
        /\ lexicon_results[c]["social_left"] + lexicon_results[c]["social_right"] = 2
        /\ Contains(result[c].explanation,
                "with economic is left-leaning, criminal justice is right-leaning. ")

\* C18: the explanation has the moral-foundation sentence exactly when some
\* foundation's proportion is strictly above 0.3, and the sentence names a foundation
\* of maximum proportion; with no foundation term counted, or a maximum of at most
\* 0.3, there is no such sentence.
C18_MoralSentence ==
    \A c \in DOMAIN pc :
        FullDone(c) =>
            LET profile == result[c].moral_foundations
                above(foundation) == 10 * profile[foundation].num > 3 * profile[foundation].den
                top(foundation) ==
                    \A other \in DOMAIN profile :
                        profile[other].num * profile[foundation].den
                            <= profile[foundation].num * profile[other].den
                sentence(foundation) ==
                    "The content emphasizes the moral foundation of " \o foundation \o "."
            IN /\ Contains(result[c].explanation, "The content emphasizes the moral foundation")
                    <=> \E foundation \in DOMAIN profile : above(foundation)
               /\ \A foundation \in FoundationNames :
                    Contains(result[c].explanation, sentence(foundation))
                        => foundation \in DOMAIN profile /\ top(foundation) /\ above(foundation)

\* the largest proportion was exactly 0.3 (3 of 10 tokens) and the sentence is absent
C18_Witness ==
    \E c \in DOMAIN pc :
        /\ FullDone(c)
        /\ DOMAIN result[c].moral_foundations = FoundationNames
        /\ \E foundation \in FoundationNames :
                FracEq(result[c].moral_foundations[foundation], Frac(3, 10))
        /\ \A foundation \in FoundationNames :
                FracLe(result[c].moral_foundations[foundation], Frac(3, 10))
        /\ ~Contains(result[c].explanation, "moral foundation")

\* C19: on the full path the explanation ends with the low-confidence disclaimer
\* exactly when confidence < 0.5, that is exactly when total_terms < 10: absent
\* with 10 indicators, present with 9 or fewer, 0 included.
C19_Disclaimer ==
    \A c \in DOMAIN pc :
        FullDone(c) =>
            LET disclaimer ==
                    "Note that this analysis has low confidence due to limited political indicators in the text."
                present == EndsWith(result[c].explanation, disclaimer)
            IN /\ present <=> 2 * result[c].confidence.num < result[c].confidence.den
               /\ present <=> TotalLeft(c) + TotalRight(c) < 10
               /\ present <=> Contains(result[c].explanation, "Note that")

\* a text with exactly 10 indicators got confidence 0.5 and no disclaimer
C19_Witness ==
    \E c \in DOMAIN pc :
        /\ FullDone(c)
        /\ TotalLeft(c) + TotalRight(c) = 10
        /\ FracEq(result[c].confidence, Frac(1, 2))
        /\ ~Contains(result[c].explanation, "low confidence")


\* a step leaves the outcome of an analysis that has run as it is, until the call
\* returns
Kept(c, local) == (local[c] # None /\ pc'[c] # "idle") => local'[c] = local[c]

\* C20: the term counter, the framing detector and the moral profiler do not depend
\* on one another: run in any of their six orders on a text they give the same
\* counts and profile, and analyze the same result, as in the order of the code;
\* none of them changes what another has produced.
C20_OrderIndependent ==
    /\ [](\A c \in DOMAIN pc :
            /\ pc[c] = "done" =>
                /\ result[c] = AnalyzeAlone(text[c])
                /\ \A i \in DOMAIN seen : seen[i].text = text[c] => result[c] = seen[i].result
            /\ lexicon_results[c] # None =>
                    lexicon_results[c] = _count_lexicon_terms(text[c], _load_lexicons)
            /\ framing_results[c] # None =>
                    framing_results[c] = _analyze_framing(text[c], FramingPatterns))
    /\ [][\A c \in DOMAIN pc :
            /\ Kept(c, lexicon_results)
            /\ Kept(c, framing_results)
            /\ Kept(c, moral_results)]_vars

\* on a text answered before, the profiler and the framing detector have run and
\* the term counter has not yet
C20_Witness ==
    \E c \in DOMAIN pc :
        /\ pc[c] = "analyses"
        /\ moral_results[c] # None
        /\ framing_results[c] # None
        /\ lexicon_results[c] = None
        /\ framing_results[c].right_frames > 0
        /\ \E i \in DOMAIN seen : seen[i].text = text[c]


\* the label with left and right exchanged
Mirror ==
    [label \in {"Strongly Left-leaning", "Moderately Left-leaning", "Slightly Left-leaning",
                "Neutral", "Slightly Right-leaning", "Moderately Right-leaning",
                "Strongly Right-leaning"} |->
        CASE label = "Strongly Left-leaning" -> "Strongly Right-leaning"
          [] label = "Moderately Left-leaning" -> "Moderately Right-leaning"
          [] label = "Slightly Left-leaning" -> "Slightly Right-leaning"
          [] label = "Neutral" -> "Neutral"
          [] label = "Slightly Right-leaning" -> "Slightly Left-leaning"
          [] label = "Moderately Right-leaning" -> "Moderately Left-leaning"
          [] label = "Strongly Right-leaning" -> "Strongly Left-leaning"]

\* C21: exchanging total_left and total_right negates bias_score, leaves confidence
\* as it is and turns the label into its mirror image, also at the scores +-0.1,
\* +-0.3 and +-0.6: the scorer applied to the exchanged totals of a call gives the
\* mirror of what the call returned.
C21_Mirror ==
    \A c \in DOMAIN pc :
        FullDone(c) =>
            LET exchanged == BiasScore(TotalRight(c), TotalLeft(c))
                b == result[c].bias_score
            IN /\ exchanged.num * b.den = -b.num * exchanged.den
               /\ FracEq(Confidence(TotalRight(c) + TotalLeft(c)), result[c].confidence)
               /\ BiasCategory(exchanged) = Mirror[result[c].interpretation]
               /\ BiasCategory(b) = result[c].interpretation

\* a call with 8 left and 2 right hits, score exactly -0.6, was labelled
\* Moderately Left-leaning, the mirror of the label of 2 left and 8 right
C21_Witness ==
    \E c \in DOMAIN pc :
        /\ FullDone(c)
        /\ TotalLeft(c) = 8
        /\ TotalRight(c) = 2
        /\ result[c].interpretation = "Moderately Left-leaning"
        /\ BiasCategory(BiasScore(2, 8)) = "Moderately Right-leaning"

\* the labels in lower case
LowerLabel ==
    [label \in DOMAIN Mirror |->
        CASE label = "Strongly Left-leaning" -> "strongly left-leaning"
          [] label = "Moderately Left-leaning" -> "moderately left-leaning"
          [] label = "Slightly Left-leaning" -> "slightly left-leaning"
          [] label = "Neutral" -> "neutral"
          [] label = "Slightly Right-leaning" -> "slightly right-leaning"
          [] label = "Moderately Right-leaning" -> "moderately right-leaning"
          [] label = "Strongly Right-leaning" -> "strongly right-leaning"]

\* nothing follows the base clause: no category above 2 hits, no foundation above
\* 0.3, confidence at least 0.5
Bare(c) ==
    /\ \A k \in 1..Len(CategoryWords) : LeftHits(c, k) + RightHits(c, k) <= 2
    /\ \A foundation \in DOMAIN result[c].moral_foundations :
            10 * result[c].moral_foundations[foundation].num
                <= 3 * result[c].moral_foundations[foundation].den
    /\ 2 * result[c].confidence.num >= result[c].confidence.den

\* C22: with no category above 2 hits, no foundation proportion above 0.3 and
\* confidence >= 0.5 the explanation is exactly "This content appears to be <label
\* in lower case>," and ends in that comma; in every other full-path case it ends
\* with a period.
C22_BareClause ==
    \A c \in DOMAIN pc :
        FullDone(c) =>
            IF Bare(c)
            THEN result[c].explanation
                    = "This content appears to be " \o LowerLabel[result[c].interpretation] \o ","
            ELSE EndsWith(result[c].explanation, ".")

\* ten framing matches and nothing else: the explanation is the bare clause
C22_Witness ==
    \E c \in DOMAIN pc :
        /\ FullDone(c)
        /\ FramingOnly(c)
        /\ framing_results[c].right_frames = 10
        /\ result[c].explanation = "This content appears to be strongly right-leaning,"


\* the text is n repetitions of the phrase, alone or followed by filler words
Repeats(s, phrase, n) == \E k \in {0, PadCount} : s = Rep(phrase, n) \o Rep(Filler, k)

\* C24: hits are counted per table entry, not per text position: one occurrence of
\* a phrase adds 1 for every lexicon entry that matches there (an entry written
\* twice in one list, the same term in several axes, a shorter term inside the
\* phrase) and 1 for each framing pattern that matches.  A single "free market"
\* adds 2 to total_right and a single "law and order" adds 3 (social_right,
\* criminal_justice_right, right framing), so total_terms exceeds the number of
\* indicator phrases in the text.
C24_PerEntry ==
    \A c \in DOMAIN pc :
        FullDone(c) =>
            \A n \in 1..MaxRepeat :
                /\ Repeats(text[c], "free market ", n) =>
                        /\ lexicon_results[c]["economy_right"] = n
                        /\ framing_results[c].right_frames = n
                        /\ TotalRight(c) = 2 * n
                        /\ TotalLeft(c) = 0
                /\ Repeats(text[c], "law and order ", n) =>
                        /\ lexicon_results[c]["social_right"] = n
                        /\ lexicon_results[c]["criminal_justice_right"] = n
                        /\ framing_results[c].right_frames = n
                        /\ TotalRight(c) = 3 * n
                        /\ TotalLeft(c) = 0
                /\ Repeats(text[c], "family values ", n) =>
                        /\ lexicon_results[c]["social_right"] = 2 * n
                        /\ framing_results[c].right_frames = n
                        /\ TotalRight(c) = 3 * n
                        /\ TotalLeft(c) = 0
                /\ Repeats(text[c], "human rights ", n) =>
                        /\ lexicon_results[c]["social_left"] = n
                        /\ lexicon_results[c]["foreign_left"] = n
                        /\ framing_results[c].left_frames = n
                        /\ TotalLeft(c) = 3 * n
                        /\ TotalRight(c) = 0
                /\ Repeats(text[c], "economic inequality ", n) =>
                        /\ lexicon_results[c]["economy_left"] = 2 * n
                        /\ framing_results[c].left_frames = n
                        /\ TotalLeft(c) = 3 * n
                        /\ TotalRight(c) = 0

\* one "law and order" among filler words was analysed: three right hits, and the
\* confidence is that of total_terms = 3
C24_Witness ==
    \E c \in DOMAIN pc :
        /\ FullDone(c)
        /\ text[c] = "law and order " \o Pad
        /\ TotalRight(c) = 3
        /\ lexicon_results[c]["criminal_justice_right"] = 1
        /\ FracEq(result[c].confidence, Confidence(3))


\* the words of a text of letters and blanks, counted by their last characters
Words(s) ==
    Cardinality({i \in 1..Len(s) :
                    /\ CharAt(s, i) # " "
                    /\ i = Len(s) \/ CharAt(s, i + 1) = " "})

\* C23: a request whose text has at least 10 words but a trimmed length below 50
\* gets the short result, which has no "interpretation"; app.py answers it with 500
\* and an "Analysis failed" error, app_improved.py with 200 and bias score 0,
\* confidence 0.1, interpretation "Neutral", empty topic_analysis and
\* moral_foundations.  A text of fewer than 10 words is rejected with 400 by both,
\* before the analyzer is called.
C23_ShortRequest ==
    \A c \in DOMAIN pc :
        (pc[c] = "responded" /\ request[c].has_text) =>
            /\ Words(text[c]) < 10 =>
                    /\ response[c].status = 400
                    /\ result[c] = None
                    /\ lexicon_results[c] = None
            /\ (Words(text[c]) >= 10 /\ TrimmedLength(text[c]) < 50) =>
                    /\ result[c] # None
                    /\ "interpretation" \notin DOMAIN result[c]
                    /\ request[c].app = "app" =>
                            /\ response[c].status = 500
                            /\ StartsWith(response[c].body.error, "Analysis failed")
                    /\ request[c].app = "app_improved" =>
                            /\ response[c].status = 200
                            /\ response[c].body.bias.score = Frac(0, 1)
                            /\ response[c].body.bias.confidence = Frac(1, 10)
                            /\ response[c].body.bias.interpretation = "Neutral"
                            /\ response[c].body.bias.topic_analysis = <<>>
                            /\ response[c].body.bias.moral_foundations = <<>>

\* app_improved.py has answered a text of exactly ten words and 30 characters
C23_Witness ==
    \E c \in DOMAIN pc :
        /\ pc[c] = "responded"
        /\ request[c] = [app |-> "app_improved", has_text |-> TRUE]
        /\ text[c] = Rep("ab ", 10)
        /\ response[c].status = 200
        /\ response[c].body.bias.interpretation = "Neutral"
        /\ response[c].body.bias.explanation = "Text is too short for reliable analysis."

=============================================================================
